---- MODULE Spec2Model ----
(***************************************************************************)
(* Verification model of the TIF-to-image terrain tools:                   *)
(*   - create_mesh_from_dem (src/dem_to_mesh.py): downsampling of a DEM,    *)
(*     coordinate mapping, normalisation, triangulation, validation and    *)
(*     cleanup of the triangle mesh;                                       *)
(*   - SimpleCameraViewer (src/interactive_viewer/simple_camera_viewer.py): *)
(*     the first-person navigator (moveTask, mouseLookTask, the ground     *)
(*     query find_ground_height) over a terrain built from a DEM;          *)
(*   - WorldViewer (src/simple_world/world_viewer.py), TerrainViewer        *)
(*     (src/interactive_viewer/terrain_viewer.py) and                      *)
(*     launch_interactive_viewer (src/interactive_viewer.py).              *)
(*                                                                         *)
(* Numbers.  The program computes in floating point.  The model computes   *)
(* in exact rational arithmetic: a number is a record [n, d] with d > 0    *)
(* and gcd(n, d) = 1; [n |-> 0, d |-> 0] is NaN (the result of 0/0) and     *)
(* [n |-> +-1, d |-> 0] is +-inf.  Floating-point rounding is not modelled. *)
(***************************************************************************)
EXTENDS Integers, Sequences, FiniteSets, TLC

VARIABLES
    \* ---- create_mesh_from_dem -------------------------------------------
    dem_data,           \* the input DEM: [rows, cols, data]
    transform,          \* the affine transform [a, b, c, d, e, f]
    downsample_factor,  \* the downsample factor
    pc,                 \* position in create_mesh_from_dem
    row_indices,        \* selected original row indices (line 18)
    col_indices,        \* selected original column indices (line 19)
    sampled,            \* dem_data after line 20: [rows, cols, data]
    vertices,           \* the vertex array of line 55
    faces,              \* the face list of lines 59-70
    mesh,               \* the Open3D mesh: [vertices, triangles]
    \* ---- SimpleCameraViewer ---------------------------------------------
    terrain,            \* self.dem_data and self.pixel_size: [rows, cols, data, pixel_size]
    camera,             \* self.camera position: [x, y, z]
    camH,               \* self.camH, degrees
    camP,               \* self.camP, degrees
    keyMap,             \* self.keyMap
    mouseDown,          \* self.mouseDown
    lastMouse,          \* self.lastMouseX, self.lastMouseY; seen = FALSE is None
    lastHasMouse,       \* mouseWatcherNode.hasMouse() in the last frame of mouseLookTask
    next_task,          \* the task the task manager runs next in this frame
    frame,              \* number of frames begun
    events,             \* input events dispatched so far in this frame
    move,               \* the locals of the last moveTask call
    \* ---- WorldViewer (src/simple_world/world_viewer.py) -----------------
    wv_terrain,         \* the terrain of create_terrain_mesh: [size, resolution, data]
    wv_player,          \* self.player position: [x, y, z]
    wv_actorH,          \* self.actorH, degrees
    wv_keyMap,          \* self.keyMap
    wv_entries,         \* self.groundHandler: surface heights, in queue order
    wv_events,          \* input events dispatched so far in this frame
    wv_frame,           \* number of frames run
    wv_camera,          \* base.camera: position [x, y, z] and forward axis
    screenshot_count,   \* self.screenshot_count
    wv_files,           \* the image files written to screenshot_dir, in order
    wv_camH,            \* self.camH of the WorldViewer, degrees
    wv_camP,            \* self.camP of the WorldViewer, degrees
    wv_mouseDown,       \* self.mouseDown of the WorldViewer
    wv_lastMouse,       \* self.lastMouseX / lastMouseY of the WorldViewer
    wv_next_task,       \* the task the WorldViewer's task manager runs next
    \* ---- launch_interactive_viewer (src/interactive_viewer.py) ----------
    pv_mesh,            \* pv_mesh: [vertices, triangles]
    pv_pc,              \* position in launch_interactive_viewer
    intersection,       \* the points of the last pv_mesh.ray_trace, as heights
    observer_position,  \* observer_position: [x, y, z]
    markers,            \* the reference markers placed so far: [x, y, height]
    \* ---- TerrainViewer (src/interactive_viewer/terrain_viewer.py) -------
    tv_terrain,         \* the triangles of the terrain node, in render's frame
    tv_camera,          \* self.camera position: [x, y, z]
    tv_camH,            \* self.camH of the TerrainViewer, degrees
    tv_camP,            \* self.camP of the TerrainViewer, degrees
    tv_keyMap,          \* self.keyMap
    tv_mouseDown,       \* self.mouseDown
    tv_lastMouse,       \* self.lastMouseX, self.lastMouseY; seen = FALSE is None
    tv_entries,         \* self.groundHandler: the y of each entry's surface point,
                        \* as the last cTrav.traverse filled it
    tv_next_task,       \* the task the TerrainViewer's task manager runs next
    tv_frame,           \* number of frames run
    tv_events,          \* input events dispatched so far in this frame
    tv_move             \* the locals of the last TerrainViewer.moveTask call

mesh_vars == <<dem_data, transform, downsample_factor, pc, row_indices,
               col_indices, sampled, vertices, faces, mesh>>

look_vars == <<camH, camP, mouseDown, lastMouse, lastHasMouse>>

nav_vars == <<terrain, camera, keyMap, next_task, frame, events, move>>

world_vars == <<wv_terrain, wv_player, wv_actorH, wv_keyMap, wv_entries,
                wv_events, wv_frame, wv_camera, screenshot_count, wv_files,
                wv_camH, wv_camP, wv_mouseDown, wv_lastMouse, wv_next_task>>

wv_look_vars == <<wv_camH, wv_camP, wv_mouseDown, wv_lastMouse>>

pv_vars == <<pv_mesh, pv_pc, intersection, observer_position, markers>>

tv_look_vars == <<tv_camH, tv_camP, tv_mouseDown, tv_lastMouse>>

tv_vars == <<tv_terrain, tv_camera, tv_keyMap, tv_entries, tv_next_task,
             tv_frame, tv_events, tv_move, tv_look_vars>>

vars == <<mesh_vars, look_vars, nav_vars, world_vars, pv_vars, tv_vars>>

\* ------------------------------------------------------------------ bounds
MaxDim == 8         \* largest number of rows / columns of an input DEM
MaxFactor == 3      \* largest downsample factor
MaxEvents == 1      \* input events the event manager dispatches per frame
MaxFrames == 3      \* frames of the viewer a behaviour runs
MaxCoord == 10      \* the observer stays within |x|, |y| <= MaxCoord (dm)
MaxLook == 45       \* SpecNav: the observer's pitch stays within +-MaxLook degrees

\* ------------------------------------------------------------- arithmetic
Abs(i) == IF i < 0 THEN -i ELSE i

Sign(i) == IF i < 0 THEN -1 ELSE IF i > 0 THEN 1 ELSE 0

RECURSIVE GCD(_, _)
GCD(a, b) == IF b = 0 THEN a ELSE GCD(b, a % b)

\* The number n/d in lowest terms; n/0 is NaN (n = 0) or +-inf.
Frac(n, d) ==
    IF d = 0 THEN [n |-> Sign(n), d |-> 0]
    ELSE LET g == GCD(Abs(n), Abs(d))
             s == Sign(d)
         IN  [n |-> s * (n \div g), d |-> s * (d \div g)]

R(i) == [n |-> i, d |-> 1]

NaN == [n |-> 0, d |-> 0]

IsNaN(p) == p.d = 0 /\ p.n = 0

IsFinite(p) == p.d > 0

\* Sums and comparisons bring p and q to the least common denominator.
RAdd(p, q) == IF IsFinite(p) /\ IsFinite(q)
              THEN LET g == GCD(p.d, q.d)
                   IN  Frac(p.n * (q.d \div g) + q.n * (p.d \div g),
                            p.d * (q.d \div g))
              ELSE NaN

RSub(p, q) == IF IsFinite(p) /\ IsFinite(q)
              THEN LET g == GCD(p.d, q.d)
                   IN  Frac(p.n * (q.d \div g) - q.n * (p.d \div g),
                            p.d * (q.d \div g))
              ELSE NaN

RMul(p, q) == IF IsFinite(p) /\ IsFinite(q)
              THEN Frac(p.n * q.n, p.d * q.d) ELSE NaN

\* IEEE division: 0/0 is NaN, x/0 is +-inf; no exception is raised.
RDiv(p, q) == IF IsFinite(p) /\ IsFinite(q)
              THEN Frac(p.n * q.d, p.d * q.n) ELSE NaN

RLess(p, q) == IsFinite(p) /\ IsFinite(q) /\
               LET g == GCD(p.d, q.d)
               IN  p.n * (q.d \div g) < q.n * (p.d \div g)

RLeq(p, q) == IsFinite(p) /\ IsFinite(q) /\
              LET g == GCD(p.d, q.d)
              IN  p.n * (q.d \div g) <= q.n * (p.d \div g)

\* IEEE equality: NaN equals nothing, itself included.
REq(p, q) == IsFinite(p) /\ IsFinite(q) /\
             LET g == GCD(p.d, q.d)
             IN  p.n * (q.d \div g) = q.n * (p.d \div g)

\* np.min / np.max of a non-empty set of finite numbers.
RMin(S) == CHOOSE p \in S : \A q \in S : RLeq(p, q)

RMax(S) == CHOOSE p \in S : \A q \in S : RLeq(q, p)

Range(s) == {s[i] : i \in 1..Len(s)}

\* The one element of a singleton set.  Binding a value with \E v \in {e}
\* or {f(v) : v \in {e}} computes e once, like an assignment to a local.
The(S) == CHOOSE v \in S : TRUE

\* ------------------------------------------------------------------ inputs
\* The DEMs the model draws: elevation base + sr*row + sc*col, with a bump
\* on the last cell (rows-1, cols-1).  sr = sc = bump = 0 is a flat grid;
\* rows = cols = 2, base = sr = sc = 0, bump = 10 is the grid [[0,0],[0,10]].
Elevation(base, sr, sc, bump, rows, cols) ==
    [rc \in (0..(rows - 1)) \X (0..(cols - 1)) |->
        base + sr * rc[1] + sc * rc[2]
             + (IF rc = <<rows - 1, cols - 1>> THEN bump ELSE 0)]

Dems ==
    {[rows |-> r, cols |-> c, data |-> Elevation(b, sr, sc, bp, r, c)] :
        r \in 2..MaxDim, c \in 2..MaxDim,
        b \in {0, 5}, sr \in {0, 1}, sc \in {0, 2}, bp \in {0, 10}}

\* rasterio Affine(a, b, c, d, e, f): x = a*col + b*row + c, y = d*col + e*row + f.
\* The georeference of a raster is invertible (a*e - b*d # 0): the identity,
\* a north-up georeference with 30 m pixels, and a rotated one, whose x
\* grows along the rows and whose y grows along the columns.
Transforms ==
    {[a |-> 1, b |-> 0, c |-> 0, d |-> 0, e |-> 1, f |-> 0],
     [a |-> 30, b |-> 0, c |-> 500, d |-> 0, e |-> -30, f |-> 900],
     [a |-> 0, b |-> 10, c |-> 100, d |-> 10, e |-> 0, f |-> 200]}

EmptyDem == [rows |-> 0, cols |-> 0, data |-> <<>>]

EmptyMesh == [vertices |-> <<>>, triangles |-> <<>>, vertex_normals |-> <<>>]

\* ------------------------------------------------- create_mesh_from_dem
\* np.linspace(0, stop, num, dtype=int): num evenly spaced values from 0 to
\* stop inclusive, truncated to integers.  num = 0 gives the empty array and
\* num = 1 gives [0].
LinspaceExclusive(stop, num) ==
    IF num <= 1 THEN <<>>
    ELSE [i \in 1..(num - 1) |-> ((i - 1) * stop) \div (num - 1)]

\* The same positions rounded to the nearest integer, halves upwards.
LinspaceNearest(stop, num) ==
    IF num <= 0 THEN <<>>
    ELSE IF num = 1 THEN <<0>>
    ELSE [i \in 1..num |-> (2 * (i - 1) * stop + (num - 1)) \div (2 * (num - 1))]

\* The positions spaced at half the step, so that they end at stop / 2.
LinspaceHalfStep(stop, num) ==
    IF num <= 0 THEN <<>>
    ELSE IF num = 1 THEN <<0>>
    ELSE [i \in 1..num |-> ((i - 1) * stop) \div (2 * (num - 1))]

Linspace(stop, num) ==
    IF num <= 0 THEN <<>>
    ELSE IF num = 1 THEN <<0>>
    ELSE [i \in 1..num |-> ((i - 1) * stop) \div (num - 1)]

\* dem_data[row_indices][:, col_indices]
Select(dem, ris, cis) ==
    [rows |-> Len(ris), cols |-> Len(cis),
     data |-> [rc \in (0..(Len(ris) - 1)) \X (0..(Len(cis) - 1)) |->
                 dem.data[<<ris[rc[1] + 1], cis[rc[2] + 1]>>]]]

\* rasterio.transform.xy(transform, rows, cols), offset='center': the world
\* coordinates of the centre of pixel (row, col).
TransformXY(t, row, col) ==
    [x |-> Frac(t.a * (2 * col + 1) + t.b * (2 * row + 1) + 2 * t.c, 2),
     y |-> Frac(t.d * (2 * col + 1) + t.e * (2 * row + 1) + 2 * t.f, 2)]

\* Lines 27-29: x_coords[i][j] = j and y_coords[i][j] = i (np.meshgrid), and
\* the call passes x_coords * factor as `rows` and y_coords * factor as `cols`.
WorldXY(t, factor, i, j) == TransformXY(t, j * factor, i * factor)

\* Lines 35-37 and 45-47, 55: the flattened (row-major) coordinate arrays,
\* min-max normalised to 0..1000 (x, y) and 0..100 (z).
Normalize(a, scale) ==
    LET lo == RMin(Range(a))
        hi == RMax(Range(a))
    IN  [k \in 1..Len(a) |-> RMul(RDiv(RSub(a[k], lo), RSub(hi, lo)), R(scale))]

\* The same, with the elevations flattened column by column (order='F').
CreateVerticesColumnMajor(dem, t, factor) ==
    LET n  == dem.rows * dem.cols
        I(k) == (k - 1) \div dem.cols
        J(k) == (k - 1) % dem.cols
        x  == [k \in 1..n |-> WorldXY(t, factor, I(k), J(k)).x]
        y  == [k \in 1..n |-> WorldXY(t, factor, I(k), J(k)).y]
        z  == [k \in 1..n |-> R(dem.data[<<(k - 1) % dem.rows, (k - 1) \div dem.rows>>])]
        xn == Normalize(x, 1000)
        yn == Normalize(y, 1000)
        zn == Normalize(z, 100)
    IN  [k \in 1..n |-> [x |-> xn[k], y |-> yn[k], z |-> zn[k]]]

CreateVertices(dem, t, factor) ==
    LET n  == dem.rows * dem.cols
        I(k) == (k - 1) \div dem.cols
        J(k) == (k - 1) % dem.cols
        x  == [k \in 1..n |-> WorldXY(t, factor, I(k), J(k)).x]
        y  == [k \in 1..n |-> WorldXY(t, factor, I(k), J(k)).y]
        z  == [k \in 1..n |-> R(dem.data[<<I(k), J(k)>>])]
        xn == Normalize(x, 1000)
        yn == Normalize(y, 1000)
        zn == Normalize(z, 100)
    IN  [k \in 1..n |-> [x |-> xn[k], y |-> yn[k], z |-> zn[k]]]

\* Lines 59-68: two triangles per quad, 0-based vertex indices.
RECURSIVE FacesFrom(_, _, _)
FacesFrom(q, rows, cols) ==
    IF q >= (rows - 1) * (cols - 1) THEN <<>>
    ELSE LET i == q \div (cols - 1)
             j == q % (cols - 1)
             idx == i * cols + j
             idx_right == idx + 1
             idx_down == idx + cols
             idx_down_right == idx + cols + 1
         IN  <<  <<idx, idx_down, idx_down_right>>,
                 <<idx, idx_down_right, idx_right>> >>
             \o FacesFrom(q + 1, rows, cols)

CreateFacesSkipLastRow(rows, cols) ==
    IF rows < 3 \/ cols < 2 THEN <<>>
    ELSE [k \in 1..(2 * (rows - 2) * (cols - 1)) |-> FacesFrom(0, rows, cols)[k]]

CreateFaces(rows, cols) ==
    IF rows < 2 \/ cols < 2 THEN <<>> ELSE FacesFrom(0, rows, cols)

\* Lines 82-88: a face is kept when all its indices are <= max_vertex_idx.
FaceIsValid(face, nvertices) ==
    \A k \in 1..3 : face[k] <= nvertices - 1

Filter(fs, nvertices) ==
    SelectSeq(fs, LAMBDA face : FaceIsValid(face, nvertices))

ValidFaces(fs, nvertices) == Filter(fs, nvertices)

\* A check that passes whatever the mesh holds.
has_triangles_unchecked(ts) == TRUE

\* Line 122, Open3D has_triangles(): the mesh has vertices (line 78 gave it
\* at least one) and at least one triangle.
has_triangles(ts) == Len(ts) > 0

\* ---- line 126, Open3D compute_vertex_normals(normalized=True)
\* The normal of a triangle before it is normalised: (v1 - v0) x (v2 - v0).
\* A NaN coordinate makes the components it enters NaN.
ComputeTriangleNormal(vs, t) ==
    The({[x |-> RSub(RMul(v01.y, v02.z), RMul(v01.z, v02.y)),
          y |-> RSub(RMul(v01.z, v02.x), RMul(v01.x, v02.z)),
          z |-> RSub(RMul(v01.x, v02.y), RMul(v01.y, v02.x))] :
         v01 \in {[x |-> RSub(vs[t[2] + 1].x, vs[t[1] + 1].x),
                   y |-> RSub(vs[t[2] + 1].y, vs[t[1] + 1].y),
                   z |-> RSub(vs[t[2] + 1].z, vs[t[1] + 1].z)]},
         v02 \in {[x |-> RSub(vs[t[3] + 1].x, vs[t[1] + 1].x),
                   y |-> RSub(vs[t[3] + 1].y, vs[t[1] + 1].y),
                   z |-> RSub(vs[t[3] + 1].z, vs[t[1] + 1].z)]}})

\* The sum of the normals of the triangles k..Len(ts) that vertex i (0-based)
\* is a corner of, starting from the zero vector: the normal of the first
\* such triangle, j, plus the sum over the triangles after j.
RECURSIVE SumTriangleNormals(_, _, _, _)
SumTriangleNormals(vs, ts, i, k) ==
    The({IF corners = {} THEN [x |-> R(0), y |-> R(0), z |-> R(0)]
         ELSE The({[x |-> RAdd(n.x, rest.x), y |-> RAdd(n.y, rest.y),
                    z |-> RAdd(n.z, rest.z)] :
                   n \in {ComputeTriangleNormal(
                             vs, ts[CHOOSE j \in corners :
                                       \A l \in corners : j <= l])},
                   rest \in {SumTriangleNormals(
                                vs, ts, i,
                                1 + CHOOSE j \in corners :
                                       \A l \in corners : j <= l)}}) :
         corners \in {{j \in k..Len(ts) :
                          i \in {ts[j][1], ts[j][2], ts[j][3]}}}})

LCM(a, b) == (a * b) \div GCD(a, b)

\* NormalizeNormals: the vector is divided by its length when its squared
\* length is > 0 and left alone otherwise (zero or NaN); then a vector whose x
\* is NaN is replaced by (0, 0, 1).  A normal is kept as [x, y, z, norm2] and
\* stands for (x, y, z) / sqrt(norm2), with x, y, z integers without a common
\* factor: the unit vector is exact although its length is not rational.
UnitVector(n) ==
         The({IF u = [x |-> 0, y |-> 0, z |-> 0]
              THEN [x |-> 0, y |-> 0, z |-> 0, norm2 |-> 1]
              ELSE [x |-> u.x, y |-> u.y, z |-> u.z,
                    norm2 |-> u.x * u.x + u.y * u.y + u.z * u.z] :
              u \in {The({The({[x |-> i.x \div g, y |-> i.y \div g, z |-> i.z \div g] :
                               g \in {IF i = [x |-> 0, y |-> 0, z |-> 0] THEN 1
                                      ELSE GCD(Abs(i.x), GCD(Abs(i.y), Abs(i.z)))}}) :
                          i \in {The({[x |-> n.x.n * (l \div n.x.d),
                                       y |-> n.y.n * (l \div n.y.d),
                                       z |-> n.z.n * (l \div n.z.d)] :
                                      l \in {LCM(n.x.d, LCM(n.y.d, n.z.d))}})}})}})

NormalizeNormalKeepNaN(n) ==
    IF IsNaN(n.x) THEN [x |-> 0, y |-> 0, z |-> 0, norm2 |-> 0] ELSE UnitVector(n)

NormalizeNormal(n) ==
    IF IsNaN(n.x) THEN [x |-> 0, y |-> 0, z |-> 1, norm2 |-> 1] ELSE UnitVector(n)

ComputeVertexNormals(vs, ts) ==
    [k \in 1..Len(vs) |-> NormalizeNormal(SumTriangleNormals(vs, ts, k - 1, 1))]

\* Line 130, Open3D remove_degenerate_triangles: drops the triangles that
\* reference the same vertex index twice.
RemoveDegenerateTriangles(ts) ==
    SelectSeq(ts, LAMBDA t : t[1] # t[2] /\ t[2] # t[3] /\ t[3] # t[1])

\* Two vertices compared by their height alone.
VertexEqHeightOnly(v, w) == REq(v.z, w.z)

\* Equality of vertex coordinates as Open3D's hash map compares them.
VertexEq(v, w) == REq(v.x, w.x) /\ REq(v.y, w.y) /\ REq(v.z, w.z)

\* The sequence s restricted to the positions in `keep`, order preserved.
RECURSIVE Compact(_, _, _)
Compact(s, keep, k) ==
    IF k > Len(s) THEN <<>>
    ELSE (IF k \in keep THEN <<s[k]>> ELSE <<>>) \o Compact(s, keep, k + 1)

\* The new 0-based index of the kept position k: the number of kept
\* positions before it.
NewIndex(keep, k) == Cardinality({j \in keep : j < k})

\* Line 134, Open3D remove_duplicated_vertices: the first vertex of each
\* group of equal coordinates is kept, the triangles are re-indexed.
RemoveDuplicatedVertices(m) ==
    LET vs == m.vertices
        First(i) == IF \E j \in 1..(i - 1) : VertexEq(vs[j], vs[i])
                    THEN CHOOSE j \in 1..(i - 1) :
                           /\ VertexEq(vs[j], vs[i])
                           /\ \A l \in 1..(j - 1) : ~VertexEq(vs[l], vs[i])
                    ELSE i
        keep == {i \in 1..Len(vs) : First(i) = i}
        old_to_new(i) == NewIndex(keep, First(i))
    IN  [vertices  |-> Compact(vs, keep, 1),
         triangles |-> [k \in 1..Len(m.triangles) |->
                          [c \in 1..3 |-> old_to_new(m.triangles[k][c] + 1)]],
         vertex_normals |-> Compact(m.vertex_normals, keep, 1)]

\* The vertex positions (1-based) some triangle references.
Referenced(ts) == {ts[k][c] + 1 : k \in 1..Len(ts), c \in 1..3}

\* Line 138, Open3D remove_unreferenced_vertices: the vertices no triangle
\* references are dropped (index_old_to_new = -1), the triangles re-indexed.
RemoveUnreferencedVerticesTwoCorners(m) ==
    LET ts   == m.triangles
        keep == {ts[k][c] + 1 : k \in 1..Len(ts), c \in 1..2} \cap (1..Len(m.vertices))
        old_to_new(i) == IF i \in keep THEN NewIndex(keep, i) ELSE -1
    IN  [vertices  |-> Compact(m.vertices, keep, 1),
         triangles |-> [k \in 1..Len(ts) |->
                          [c \in 1..3 |-> old_to_new(ts[k][c] + 1)]],
         vertex_normals |-> Compact(m.vertex_normals, keep, 1)]

RemoveUnreferencedVertices(m) ==
    LET keep == Referenced(m.triangles) \cap (1..Len(m.vertices))
        old_to_new(i) == IF i \in keep THEN NewIndex(keep, i) ELSE -1
    IN  [vertices  |-> Compact(m.vertices, keep, 1),
         triangles |-> [k \in 1..Len(m.triangles) |->
                          [c \in 1..3 |-> old_to_new(m.triangles[k][c] + 1)]],
         vertex_normals |-> Compact(m.vertex_normals, keep, 1)]

\* Lines 129-139: the three cleanup passes, in the order of the code.
Cleanup(m) ==
    RemoveUnreferencedVertices(
        RemoveDuplicatedVertices(
            [m EXCEPT !.triangles = RemoveDegenerateTriangles(m.triangles)]))

\* No WorldViewer has been constructed.
NoWorldViewer ==
    /\ wv_terrain = [size |-> 0, resolution |-> 0, data |-> <<>>]
    /\ wv_player = [x |-> 0, y |-> 0, z |-> R(0)]
    /\ wv_actorH = 0
    /\ wv_keyMap = <<>>
    /\ wv_entries = <<>>
    /\ wv_events = 0
    /\ wv_frame = 0
    /\ wv_camera = [x |-> R(0), y |-> R(0), z |-> R(0),
                    fwd |-> [x |-> R(0), y |-> R(1), z |-> R(0)]]
    /\ screenshot_count = 0
    /\ wv_files = <<>>
    /\ wv_camH = 0
    /\ wv_camP = 0
    /\ wv_mouseDown = FALSE
    /\ wv_lastMouse = [seen |-> FALSE, x |-> 0, y |-> 0]
    /\ wv_next_task = "moveTask"

\* The locals of TerrainViewer.moveTask before its first call.
NoTerrainMove ==
    [moved |-> FALSE, new_pos |-> [x |-> R(0), y |-> R(0), z |-> R(0)],
     step2 |-> 0, entries |-> {}]

\* No TerrainViewer has been constructed.
NoTerrainViewer ==
    /\ tv_terrain = <<>>
    /\ tv_camera = [x |-> R(0), y |-> R(0), z |-> R(0)]
    /\ tv_camH = 0
    /\ tv_camP = 0
    /\ tv_keyMap = <<>>
    /\ tv_mouseDown = FALSE
    /\ tv_lastMouse = [seen |-> FALSE, x |-> 0, y |-> 0]
    /\ tv_entries = {}
    /\ tv_next_task = "none"
    /\ tv_frame = 0
    /\ tv_events = 0
    /\ tv_move = NoTerrainMove

\* launch_interactive_viewer has not been called.
NoLaunch ==
    /\ pv_mesh = [vertices |-> <<>>, triangles |-> <<>>]
    /\ pv_pc = "idle"
    /\ intersection = <<>>
    /\ observer_position = [x |-> 0, y |-> 0, z |-> R(0)]
    /\ markers = <<>>

\* lastMouseX = lastMouseY = None (lines 307-308).
NoMouse == [seen |-> FALSE, x |-> 0, y |-> 0]

\* No viewer has been constructed.
NoViewer ==
    /\ terrain = [rows |-> 0, cols |-> 0, data |-> <<>>, pixel_size |-> 0]
    /\ camera = [x |-> 0, y |-> 0, z |-> R(0)]
    /\ camH = 0
    /\ camP = 0
    /\ keyMap = <<>>
    /\ mouseDown = FALSE
    /\ lastMouse = NoMouse
    /\ lastHasMouse = FALSE
    /\ next_task = "none"
    /\ frame = 0
    /\ events = 0
    /\ move = <<>>

\* ---- the call create_mesh_from_dem(dem_data, transform, downsample_factor)
MeshInit ==
    /\ NoViewer
    /\ NoWorldViewer
    /\ NoLaunch
    /\ NoTerrainViewer
    /\ dem_data \in Dems
    /\ transform \in Transforms
    /\ downsample_factor \in 1..MaxFactor
    /\ pc = "start"
    /\ row_indices = <<>>
    /\ col_indices = <<>>
    /\ sampled = EmptyDem
    /\ vertices = <<>>
    /\ faces = <<>>
    /\ mesh = EmptyMesh

\* Lines 13-22.
Downsample ==
    /\ pc = "start"
    /\ LET downsampled_rows == dem_data.rows \div downsample_factor
           downsampled_cols == dem_data.cols \div downsample_factor
           ris == Linspace(dem_data.rows - 1, downsampled_rows)
           cis == Linspace(dem_data.cols - 1, downsampled_cols)
       IN  /\ row_indices' = ris
           /\ col_indices' = cis
           /\ sampled' = Select(dem_data, ris, cis)
    /\ pc' = "sampled"
    /\ UNCHANGED <<dem_data, transform, downsample_factor, vertices, faces, mesh>>
    /\ UNCHANGED <<look_vars, nav_vars, world_vars, tv_vars, pv_vars>>

\* Lines 25-56.  np.min of an empty array (line 40) raises ValueError.
Coordinates ==
    /\ pc = "sampled"
    /\ IF sampled.rows * sampled.cols = 0
       THEN /\ pc' = "raised"
            /\ UNCHANGED vertices
       ELSE /\ vertices' = CreateVertices(sampled, transform, downsample_factor)
            /\ pc' = "vertices"
    /\ UNCHANGED <<dem_data, transform, downsample_factor, row_indices,
                   col_indices, sampled, faces, mesh>>
    /\ UNCHANGED <<look_vars, nav_vars, world_vars, tv_vars, pv_vars>>

\* Lines 58-71.
Faces ==
    /\ pc = "vertices"
    /\ faces' = CreateFaces(sampled.rows, sampled.cols)
    /\ pc' = "faces"
    /\ UNCHANGED <<dem_data, transform, downsample_factor, row_indices,
                   col_indices, sampled, vertices, mesh>>
    /\ UNCHANGED <<look_vars, nav_vars, world_vars, tv_vars, pv_vars>>

\* Lines 73-127: the valid faces become the mesh's triangles; a mesh
\* without triangles raises ValueError (line 123), re-raised at line 151.
Build ==
    /\ pc = "faces"
    /\ LET valid_faces == ValidFaces(faces, Len(vertices))
       IN  IF ~has_triangles(valid_faces)
           THEN /\ pc' = "raised"
                /\ UNCHANGED mesh
           ELSE /\ mesh' = [vertices |-> vertices, triangles |-> valid_faces,
                            vertex_normals |->
                                ComputeVertexNormals(vertices, valid_faces)]
                /\ pc' = "built"
    /\ UNCHANGED <<dem_data, transform, downsample_factor, row_indices,
                   col_indices, sampled, vertices, faces>>
    /\ UNCHANGED <<look_vars, nav_vars, world_vars, tv_vars, pv_vars>>

\* Lines 129-154: cleanup, then the mesh is returned.
CleanupAndReturn ==
    /\ pc = "built"
    /\ mesh' = Cleanup(mesh)
    /\ pc' = "returned"
    /\ UNCHANGED <<dem_data, transform, downsample_factor, row_indices,
                   col_indices, sampled, vertices, faces>>
    /\ UNCHANGED <<look_vars, nav_vars, world_vars, tv_vars, pv_vars>>

MeshNext ==
    \/ Downsample
    \/ Coordinates
    \/ Faces
    \/ Build
    \/ CleanupAndReturn

SpecMesh == MeshInit /\ [][MeshNext]_vars

\* =================================================== SimpleCameraViewer
\* Lengths are in decimetres (1 m = 10 dm), angles in degrees, times in ms.
\* Planar positions are integers, heights are exact rationals.

eye_height == 17        \* 1.7 m

speed == 50             \* 5.0 m/s, in dm/s

RayOrigin == 100000     \* setOrigin(0, 0, 10000): 10000 m up the ray's axis

\* math.sin / math.cos of a heading that is a multiple of 90 degrees.
Sin(h) == IF h % 360 = 90 THEN 1 ELSE IF h % 360 = 270 THEN -1 ELSE 0

Cos(h) == IF h % 360 = 0 THEN 1 ELSE IF h % 360 = 180 THEN -1 ELSE 0

\* The tangent of a pitch of -45, 0 or 45 degrees.
Tan(p) == p \div 45

\* The terrains a viewer is constructed with: a 2x2 grid with one corner
\* 10 m up ([[0,0],[0,10]]), a flat 3x3 grid at 5 m, a 3x3 ramp that rises
\* 0.5 m per 1 m pixel along the rows, and a 3x3 grid with a 10 m peak on
\* its centre cell, which a tilted ray can meet at more than one height.
NavTerrains ==
    {[rows |-> 2, cols |-> 2, pixel_size |-> 10,
      data |-> [rc \in (0..1) \X (0..1) |-> IF rc = <<1, 1>> THEN 100 ELSE 0]],
     [rows |-> 3, cols |-> 3, pixel_size |-> 10,
      data |-> [rc \in (0..2) \X (0..2) |-> 50]],
     [rows |-> 3, cols |-> 3, pixel_size |-> 10,
      data |-> [rc \in (0..2) \X (0..2) |-> 5 * rc[1]]],
     [rows |-> 3, cols |-> 3, pixel_size |-> 10,
      data |-> [rc \in (0..2) \X (0..2) |-> IF rc = <<1, 1>> THEN 100 ELSE 0]]}

\* create_terrain, lines 106-127: the vertex of grid cell (y, x).
TerrainVertex(T, y, x) ==
    LET half_width  == Frac(T.cols * T.pixel_size, 2)
        half_height == Frac(T.rows * T.pixel_size, 2)
    IN  [x |-> RSub(R(x * T.pixel_size), half_width),
         y |-> RSub(R(y * T.pixel_size), half_height),
         z |-> R(T.data[<<y, x>>])]

\* The triangles of every quad as [v0, v2, v3] and [v0, v3, v1], the split of
\* create_mesh_from_dem.
TerrainIndexTrianglesSameDiagonal(T) ==
    [k \in 1..(2 * (T.rows - 1) * (T.cols - 1)) |->
        LET y == ((k - 1) \div 2) \div (T.cols - 1)
            x == ((k - 1) \div 2) % (T.cols - 1)
            v0 == y * T.cols + x
            v1 == v0 + 1
            v2 == (y + 1) * T.cols + x
            v3 == v2 + 1
        IN  IF k % 2 = 1 THEN <<v0, v2, v3>> ELSE <<v0, v3, v1>>]

\* create_terrain, lines 146-159: tris.addVertices(v0, v1, v2) and
\* tris.addVertices(v1, v3, v2) for every quad, row by row; width is the
\* number of columns.
TerrainIndexTriangles(T) ==
    [k \in 1..(2 * (T.rows - 1) * (T.cols - 1)) |->
        LET y == ((k - 1) \div 2) \div (T.cols - 1)
            x == ((k - 1) \div 2) % (T.cols - 1)
            v0 == y * T.cols + x
            v1 == v0 + 1
            v2 == (y + 1) * T.cols + x
            v3 == v2 + 1
        IN  IF k % 2 = 1 THEN <<v0, v1, v2>> ELSE <<v1, v3, v2>>]

\* create_terrain, lines 150-158 and 188-207: the triangles (v0, v1, v2)
\* and (v1, v3, v2) of every quad, both as geometry and as CollisionPolygons.
\* Vertex v is the vertex of grid cell (v div width, v mod width).
TerrainTriangles(T) ==
    {<<TerrainVertex(T, t[1] \div T.cols, t[1] % T.cols),
       TerrainVertex(T, t[2] \div T.cols, t[2] % T.cols),
       TerrainVertex(T, t[3] \div T.cols, t[3] % T.cols)>> :
     t \in Range(TerrainIndexTriangles(T))}

\* The ray of groundRay seen from render.  groundColNp is a child of the
\* camera (line 34), so the origin (0, 0, 10000) and direction (0, 0, -1) of
\* lines 429-430 are in the camera's frame: with heading h and pitch p the
\* camera's z axis is (sin h sin p, -cos h sin p, cos p), and the ray is the
\* line through the camera along that axis.  A point of it is
\*   (cam.x + k*sx, cam.y + k*sy, cam.z - k),  (sx, sy) = (-sin h, cos h) tan p,
\* for k >= -10000 m * cos p.
RaySlope(h, p) == [x |-> -Sin(h) * Tan(p), y |-> Cos(h) * Tan(p)]

\* 10000 m * cos p, rounded down to a decimetre.
RayRise(p) == IF p = 0 THEN RayOrigin ELSE 70710

\* The normal (b - a) x (c - a) of the plane of triangle <<a, b, c>>.
PlaneNormal(tri) ==
    [x |-> RSub(RMul(RSub(tri[2].y, tri[1].y), RSub(tri[3].z, tri[1].z)),
                RMul(RSub(tri[2].z, tri[1].z), RSub(tri[3].y, tri[1].y))),
     y |-> RSub(RMul(RSub(tri[2].z, tri[1].z), RSub(tri[3].x, tri[1].x)),
                RMul(RSub(tri[2].x, tri[1].x), RSub(tri[3].z, tri[1].z))),
     z |-> RSub(RMul(RSub(tri[2].x, tri[1].x), RSub(tri[3].y, tri[1].y)),
                RMul(RSub(tri[2].y, tri[1].y), RSub(tri[3].x, tri[1].x)))]

\* The k at which the ray's point (cam.x + k*sx, cam.y + k*sy, cam.z - k)
\* lies in the plane of tri with normal n:  n . (a - cam) / n . (sx, sy, -1).
\* Not finite when the ray is parallel to the plane.
PlaneHit(cam, slope, tri, n) ==
    RDiv(RAdd(RAdd(RMul(n.x, RSub(tri[1].x, R(cam.x))),
                   RMul(n.y, RSub(tri[1].y, R(cam.y)))),
              RMul(n.z, RSub(tri[1].z, cam.z))),
         RSub(RAdd(RMul(n.x, R(slope.x)), RMul(n.y, R(slope.y))), n.z))

\* Which side of the edge from p to q the planar point (px, py) is on.
Side(p, q, px, py) ==
    Sign(RSub(RMul(RSub(q.x, p.x), RSub(py, p.y)),
              RMul(RSub(q.y, p.y), RSub(px, p.x))).n)

\* (px, py) is inside the triangle's planar projection, edges included.
InsideTriangle(tri, px, py) ==
    \E sides \in {{Side(tri[1], tri[2], px, py), Side(tri[2], tri[3], px, py),
                   Side(tri[3], tri[1], px, py)}} :
        ~(1 \in sides /\ -1 \in sides)

\* The height at which the ray through cam meets triangle tri, as a set:
\* empty when the ray is parallel to the triangle's plane, when the plane is
\* behind the ray's origin, or when the ray meets the plane outside the
\* triangle.
RayTriangle(cam, slope, rise, tri) ==
    UNION {IF ~IsFinite(k) \/ RLess(k, R(-rise)) THEN {}
           ELSE IF \E px \in {RAdd(R(cam.x), RMul(k, R(slope.x)))} :
                   \E py \in {RAdd(R(cam.y), RMul(k, R(slope.y)))} :
                       InsideTriangle(tri, px, py)
                THEN {RSub(cam.z, k)}
                ELSE {} :
           k \in {PlaneHit(cam, slope, tri, n) : n \in {PlaneNormal(tri)}}}

\* The entries of groundHandler after cTrav.traverse(render), as heights.
GroundEntries(T, cam, h, p) ==
    UNION {RayTriangle(cam, RaySlope(h, p), RayRise(p), tri) :
           tri \in TerrainTriangles(T)}

\* find_ground_height(x, y), lines 426-447, called with the camera at cam
\* with heading h and pitch p.  x and y are only printed.
find_ground_height_lowest(x, y, T, cam, h, p) ==
    The({IF entries # {} THEN RMin(entries) ELSE R(0) :
         entries \in {GroundEntries(T, cam, h, p)}})

find_ground_height(x, y, T, cam, h, p) ==
    The({IF entries # {} THEN RMax(entries) ELSE R(0) :
         entries \in {GroundEntries(T, cam, h, p)}})

Keys == {"forward", "backward", "left", "right"}

\* globalClock.getDt() squared, in ms^2: 0.2 s, and 0.2 * sqrt(2) s, the
\* frame time at which a diagonal move covers 1 m along each axis.
Dt2s == {40000, 80000}

\* (speed * dt)^2 in dm^2.
Step2(dt2) == (speed * speed * dt2) \div 1000000

\* The factor applied to move_vec when it is scaled by dt * speed without
\* being normalised first.
UnnormalizedScale(dir, step2) ==
    {scale \in 1..(2 * MaxCoord) : scale * scale = step2}

\* Lines 353-354: move_vec.normalize(); move_vec *= dt * speed.  The factor
\* by which the summed direction dir is multiplied, (dt * speed) / |dir|,
\* for the frame times at which it is a whole number of decimetres (for the
\* zero vector, which is not scaled, dt * speed itself).
NormalizedScale(dir, step2) ==
    {scale \in 1..(2 * MaxCoord) :
        scale * scale * (IF dir = [x |-> 0, y |-> 0] THEN 1
                         ELSE dir.x * dir.x + dir.y * dir.y) = step2}

NoMove ==
    [moved |-> FALSE, current_pos |-> <<0, 0>>, desired_pos |-> <<0, 0>>,
     new_ground_height |-> R(0), current_ground_height |-> R(0),
     max_climb2 |-> 0, branch |-> "none", prev_z |-> R(0),
     found |-> FALSE, ground_height |-> R(0)]

\* move_vec when 'backward' is looked at only if 'forward' is not held, and
\* 'right' only if 'left' is not (elif in place of if).
MoveDirectionFirstKeyWins(h, km) ==
    The({[x |-> (IF km["forward"] THEN -forward.x
                 ELSE IF km["backward"] THEN forward.x ELSE 0)
                + (IF km["left"] THEN right.x
                   ELSE IF km["right"] THEN -right.x ELSE 0),
          y |-> (IF km["forward"] THEN -forward.y
                 ELSE IF km["backward"] THEN forward.y ELSE 0)
                + (IF km["left"] THEN right.y
                   ELSE IF km["right"] THEN -right.y ELSE 0)] :
         forward \in {[x |-> Sin(h), y |-> -Cos(h)]},
         right \in {[x |-> -Cos(h), y |-> -Sin(h)]}})

\* Lines 328-349: move_vec before it is normalised.
MoveDirection(h, km) ==
    The({[x |-> (IF km["backward"] THEN forward.x ELSE 0)
                - (IF km["forward"] THEN forward.x ELSE 0)
                + (IF km["left"] THEN right.x ELSE 0)
                - (IF km["right"] THEN right.x ELSE 0),
          y |-> (IF km["backward"] THEN forward.y ELSE 0)
                - (IF km["forward"] THEN forward.y ELSE 0)
                + (IF km["left"] THEN right.y ELSE 0)
                - (IF km["right"] THEN right.y ELSE 0)] :
         forward \in {[x |-> Sin(h), y |-> -Cos(h)]},
         right \in {[x |-> -Cos(h), y |-> -Sin(h)]}})

\* Lines 363-371: the branch moveTask takes for a move with max_climb^2 =
\* step2: abs(height_diff) <= max_climb is compared with both sides squared.
Branch(new_ground_height, current_ground_height, step2) ==
    The({IF RLeq(RMul(height_diff, height_diff), R(step2)) THEN "full"
         ELSE IF RLess(R(0), height_diff) THEN "uphill" ELSE "downhill" :
         height_diff \in {RSub(new_ground_height, current_ground_height)}})

\* Lines 366-381: where the camera is put, given the branch.  0.2 and 0.5 of
\* move_vec are exact, the steps are multiples of 10 dm.
Place(T, cam, h, p, move_vec, new_ground_height, branch) ==
    IF branch = "full"
    THEN [x |-> cam.x + move_vec.x, y |-> cam.y + move_vec.y,
          z |-> RAdd(new_ground_height, R(eye_height))]
    ELSE The({[x |-> slide_pos.x, y |-> slide_pos.y,
               z |-> RAdd(find_ground_height(slide_pos.x, slide_pos.y,
                                             T, cam, h, p),
                          R(eye_height))] :
              slide_pos \in {IF branch = "uphill"
                             THEN [x |-> cam.x + (move_vec.x * 2) \div 10,
                                   y |-> cam.y + (move_vec.y * 2) \div 10]
                             ELSE [x |-> cam.x + (move_vec.x * 5) \div 10,
                                   y |-> cam.y + (move_vec.y * 5) \div 10]}})

\* Line 409.
WrapHeading(h) == h % 360

\* Line 412.
ClampPitchUpperOnly(pp) == IF pp < 89 THEN pp ELSE 89

ClampPitch(pp) ==
    LET lower == IF pp < 89 THEN pp ELSE 89
    IN  IF lower > -89 THEN lower ELSE -89

\* Lines 398-421 without the test of self.mouseDown (line 403).
MouseLookButtonIgnored(hasMouse, mouseX, mouseY) ==
    IF ~hasMouse
    THEN [camH |-> camH, camP |-> camP, lastMouse |-> lastMouse]
    ELSE LET look == lastMouse.seen
             deltaX == IF look THEN mouseX - lastMouse.x ELSE 0
             deltaY == IF look THEN mouseY - lastMouse.y ELSE 0
             h == WrapHeading(camH - (deltaX * 50) \div 10)
             pp == ClampPitch(camP + (deltaY * 50) \div 10)
         IN  [camH |-> IF look THEN h ELSE camH,
              camP |-> IF look THEN pp ELSE camP,
              lastMouse |-> [seen |-> TRUE, x |-> mouseX, y |-> mouseY]]

\* Lines 398-421 with the heading delta added instead of subtracted.
MouseLookHeadingAdded(hasMouse, mouseX, mouseY) ==
    IF ~hasMouse
    THEN [camH |-> camH, camP |-> camP, lastMouse |-> lastMouse]
    ELSE LET look == mouseDown /\ lastMouse.seen
             deltaX == IF look THEN mouseX - lastMouse.x ELSE 0
             deltaY == IF look THEN mouseY - lastMouse.y ELSE 0
             h == WrapHeading(camH + (deltaX * 50) \div 10)
             pp == ClampPitch(camP + (deltaY * 50) \div 10)
         IN  [camH |-> IF look THEN h ELSE camH,
              camP |-> IF look THEN pp ELSE camP,
              lastMouse |-> [seen |-> TRUE, x |-> mouseX, y |-> mouseY]]

\* Lines 398-421.  mouseX and mouseY are in tenths; the sensitivity is 50
\* degrees per unit.
MouseLook(hasMouse, mouseX, mouseY) ==
    IF ~hasMouse
    THEN [camH |-> camH, camP |-> camP, lastMouse |-> lastMouse]
    ELSE LET look == mouseDown /\ lastMouse.seen
             deltaX == IF look THEN mouseX - lastMouse.x ELSE 0
             deltaY == IF look THEN mouseY - lastMouse.y ELSE 0
             h == WrapHeading(camH - (deltaX * 50) \div 10)
             pp == ClampPitch(camP + (deltaY * 50) \div 10)
         IN  [camH |-> IF look THEN h ELSE camH,
              camP |-> IF look THEN pp ELSE camP,
              lastMouse |-> [seen |-> TRUE, x |-> mouseX, y |-> mouseY]]

\* No call of create_mesh_from_dem is in progress.
NoMeshCall ==
    /\ dem_data = EmptyDem
    /\ transform = [a |-> 1, b |-> 0, c |-> 0, d |-> 0, e |-> 1, f |-> 0]
    /\ downsample_factor = 1
    /\ pc = "idle"
    /\ row_indices = <<>>
    /\ col_indices = <<>>
    /\ sampled = EmptyDem
    /\ vertices = <<>>
    /\ faces = <<>>
    /\ mesh = EmptyMesh

\* __init__ (lines 20-88): create_terrain, then camera_setup (lines 259-273,
\* the ground query being made with the camera still at the origin, level),
\* then setup_controls (lines 285-312).
NavInit ==
    /\ NoMeshCall
    /\ NoWorldViewer
    /\ NoLaunch
    /\ NoTerrainViewer
    /\ terrain \in NavTerrains
    /\ camH = 180
    /\ camP = 0
    /\ camera = [x |-> 0, y |-> 0,
                 z |-> RAdd(find_ground_height(0, 0, terrain,
                                       [x |-> 0, y |-> 0, z |-> R(0)], 0, 0),
                                   R(eye_height))]
    /\ keyMap = [k \in Keys |-> FALSE]
    /\ mouseDown = FALSE
    /\ lastMouse = NoMouse
    /\ lastHasMouse = FALSE
    /\ next_task = "moveTask"
    /\ frame = 0
    /\ events = 0
    /\ move = NoMove

\* Lines 314-315, run by the event manager before the frame's tasks.
updateKeyMap ==
    /\ next_task = "moveTask"
    /\ events < MaxEvents
    /\ \E key \in Keys, value \in BOOLEAN :
          keyMap' = [keyMap EXCEPT ![key] = value]
    /\ events' = events + 1
    /\ UNCHANGED <<mesh_vars, world_vars, tv_vars, pv_vars, look_vars, terrain, camera, next_task, frame, move>>

\* Lines 317-318.
onMouseDown ==
    /\ next_task = "moveTask"
    /\ events < MaxEvents
    /\ mouseDown' = TRUE
    /\ events' = events + 1
    /\ UNCHANGED <<mesh_vars, world_vars, tv_vars, pv_vars, terrain, camera, keyMap, next_task, frame, move,
                   camH, camP, lastMouse, lastHasMouse>>

\* Lines 320-321.
onMouseUp ==
    /\ next_task = "moveTask"
    /\ events < MaxEvents
    /\ mouseDown' = FALSE
    /\ events' = events + 1
    /\ UNCHANGED <<mesh_vars, world_vars, tv_vars, pv_vars, terrain, camera, keyMap, next_task, frame, move,
                   camH, camP, lastMouse, lastHasMouse>>

\* The positions set_initial_position is called with, in dm.
InitialPositions == {[x |-> 0, y |-> -10]}

\* set_initial_position(x, y), lines 449-453: a public method without a
\* caller in the repository; a caller on the viewer's thread runs it between
\* two frames.  The ground query is made from where the camera stands.
set_initial_position ==
    /\ next_task = "moveTask"
    /\ events < MaxEvents
    /\ \E pos \in InitialPositions :
       \E ground_z \in {find_ground_height(pos.x, pos.y, terrain, camera,
                                           camH, camP)} :
          camera' = [x |-> pos.x, y |-> pos.y,
                     z |-> RAdd(ground_z, R(eye_height))]
    /\ events' = events + 1
    /\ UNCHANGED <<mesh_vars, world_vars, tv_vars, pv_vars, look_vars, terrain, keyMap,
                   next_task, frame, move>>

\* Lines 323-396; the task manager runs it first in every frame (line 311).
\* scale is the length of move_vec along each axis after lines 353-354.
moveTask ==
    /\ next_task = "moveTask"
    /\ frame < MaxFrames
    /\ \E dt2 \in Dt2s, dir \in {MoveDirection(camH, keyMap)} :
       \E scale \in NormalizedScale(dir, Step2(dt2)) :
          /\ IF dir # [x |-> 0, y |-> 0]                           \* line 352
             THEN \E move_vec \in {[x |-> dir.x * scale, y |-> dir.y * scale]} :
                  \E new_ground_height \in
                        {find_ground_height(camera.x + move_vec.x, camera.y + move_vec.y,
                                            terrain, camera, camH, camP)} :
                  \E current_ground_height \in
                        {find_ground_height(camera.x, camera.y,
                                            terrain, camera, camH, camP)} :
                  \E branch \in {Branch(new_ground_height, current_ground_height,
                                        Step2(dt2))} :
                  \E placed \in {Place(terrain, camera, camH, camP, move_vec,
                                       new_ground_height, branch)} :
                  \* lines 384-386
                  \E entries \in {GroundEntries(terrain, placed, camH, camP)} :
                  \E ground_height \in
                        {find_ground_height(placed.x, placed.y,
                                            terrain, placed, camH, camP)} :
                     /\ Abs(placed.x) <= MaxCoord
                     /\ Abs(placed.y) <= MaxCoord
                     /\ camera' = [placed EXCEPT
                                     !.z = RAdd(ground_height, R(eye_height))]
                     /\ move' = [moved |-> TRUE,
                                 current_pos |-> <<camera.x, camera.y>>,
                                 desired_pos |-> <<camera.x + move_vec.x,
                                                   camera.y + move_vec.y>>,
                                 new_ground_height |-> new_ground_height,
                                 current_ground_height |-> current_ground_height,
                                 max_climb2 |-> Step2(dt2),
                                 branch |-> branch,
                                 prev_z |-> camera.z,
                                 found |-> entries # {},
                                 ground_height |-> ground_height]
             ELSE \* lines 384-386
                  \E entries \in {GroundEntries(terrain, camera, camH, camP)} :
                  \E ground_height \in
                        {find_ground_height(camera.x, camera.y,
                                            terrain, camera, camH, camP)} :
                     /\ camera' = [camera EXCEPT
                                     !.z = RAdd(ground_height, R(eye_height))]
                     /\ move' = [NoMove EXCEPT
                                   !.current_pos = <<camera.x, camera.y>>,
                                   !.desired_pos = <<camera.x, camera.y>>,
                                   !.max_climb2 = Step2(dt2),
                                   !.prev_z = camera.z,
                                   !.found = entries # {},
                                   !.ground_height = ground_height]
    /\ next_task' = "mouseLookTask"
    /\ frame' = frame + 1
    /\ UNCHANGED <<mesh_vars, world_vars, tv_vars, pv_vars, look_vars, terrain, keyMap, events>>

\* The pointer positions the mouse watcher reports, in tenths.
NavMouse == {[x |-> -9, y |-> 0], [x |-> 9, y |-> 0], [x |-> 9, y |-> 9]}

\* mouseLookTask run at any point of the frame, also before moveTask.
mouseLookTaskUnordered ==
    /\ next_task \in {"moveTask", "mouseLookTask"}
    /\ \E hasMouse \in BOOLEAN : \E m \in NavMouse :
          LET look == MouseLook(hasMouse, m.x, m.y)
          IN  /\ Abs(look.camP) <= MaxLook
              /\ camH' = look.camH
              /\ camP' = look.camP
              /\ lastMouse' = look.lastMouse
              /\ lastHasMouse' = hasMouse
    /\ UNCHANGED <<mesh_vars, world_vars, tv_vars, pv_vars, terrain, camera, keyMap,
                   mouseDown, frame, move, next_task, events>>

\* Lines 398-421; runs after moveTask in every frame (line 312).
mouseLookTask ==
    /\ next_task = "mouseLookTask"
    /\ \E hasMouse \in BOOLEAN : \E m \in NavMouse :
          LET look == MouseLook(hasMouse, m.x, m.y)
          IN  /\ Abs(look.camP) <= MaxLook
              /\ camH' = look.camH
              /\ camP' = look.camP
              /\ lastMouse' = look.lastMouse
              /\ lastHasMouse' = hasMouse
    /\ next_task' = "moveTask"
    /\ events' = 0
    /\ UNCHANGED <<mesh_vars, world_vars, tv_vars, pv_vars, terrain, camera, keyMap, mouseDown, frame, move>>

\* self.cTrav is set (line 28), so ShowBase's collisionLoop task traverses
\* once more at the end of every frame.  It writes only the entries of
\* groundHandler, and find_ground_height reads them only right after its own
\* traverse (lines 433-444): the entries are no state of the viewer.
NavNext ==
    \/ updateKeyMap
    \/ onMouseDown
    \/ onMouseUp
    \/ set_initial_position
    \/ moveTask
    \/ mouseLookTask

SpecNav == NavInit /\ [][NavNext]_vars

\* ---- the look controls on their own: mouseLookTask reads and writes only
\* camH, camP, lastMouseX/Y and mouseDown, so its frames are followed here
\* with pointer readings that swing the view by up to 100 degrees a frame.
LookMouse == {[x |-> mx, y |-> my] : mx \in {-10, 0, 7}, my \in {-10, 0, 10}}

\* Lines 398-421.
mouseLookTaskWide ==
    /\ next_task = "moveTask"
    /\ \E hasMouse \in BOOLEAN : \E m \in LookMouse :
          LET look == MouseLook(hasMouse, m.x, m.y)
          IN  /\ camH' = look.camH
              /\ camP' = look.camP
              /\ lastMouse' = look.lastMouse
              /\ lastHasMouse' = hasMouse
    /\ events' = 0
    /\ UNCHANGED <<mesh_vars, world_vars, tv_vars, pv_vars, terrain, camera, keyMap, mouseDown, next_task, frame, move>>

\* ========================================================== WorldViewer
\* src/simple_world/world_viewer.py.  Lengths in decimetres, angles in
\* degrees, times in ms, as for SimpleCameraViewer.

wv_speed == 50          \* speed = 5.0 m/s (line 311), in dm/s

turn_speed == 100       \* turn_speed = 100.0 degrees/s (line 312)

\* The vertex coordinates of create_terrain_mesh along one axis:
\* range(-size//2, size//2 + resolution, resolution), lines 492-493.
WorldCoords(T) ==
    [k \in 1..((T.size + T.resolution - 1) \div T.resolution + 1) |->
        ((-T.size) \div 2) + (k - 1) * T.resolution]

\* create_terrain_mesh is called with its defaults size = 2000, resolution =
\* 10 (m) and takes the heights from height_at, a sum of sines.  The model
\* runs it on terrains of 2 x 2 quads of 10 m whose vertex heights are drawn
\* from tables: flat, a slope along x, and a 3 m bump on the centre vertex;
\* and on a flat terrain of 2 x 2 quads of 4 m, which one step leaves.
WorldTerrains ==
    {[size |-> 80, resolution |-> 40,
      data |-> [xy \in {-40, 0, 40} \X {-40, 0, 40} |-> 0]]} \cup
    {[size |-> 200, resolution |-> 100,
      data |-> [xy \in {-100, 0, 100} \X {-100, 0, 100} |-> 0]],
     [size |-> 200, resolution |-> 100,
      data |-> [xy \in {-100, 0, 100} \X {-100, 0, 100} |-> (xy[1] + 100) \div 5]],
     [size |-> 200, resolution |-> 100,
      data |-> [xy \in {-100, 0, 100} \X {-100, 0, 100} |->
                  IF xy = <<0, 0>> THEN 30 ELSE 0]]}

\* Lines 492-496: vertex v (0-based), row-major over y then x.
WorldVertex(T, v) ==
    The({[x |-> R(c[(v % Len(c)) + 1]), y |-> R(c[(v \div Len(c)) + 1]),
          z |-> R(T.data[<<c[(v % Len(c)) + 1], c[(v \div Len(c)) + 1]>>])] :
         c \in {WorldCoords(T)}})

\* Lines 506-520: the triangles (v0, v1, v2), (v1, v3, v2) of quad q, with
\* rows = cols = size // resolution quads along each axis.
WorldTriangles(T) ==
    The({[k \in 1..(2 * cols * cols) |->
            The({IF k % 2 = 1
                 THEN <<WorldVertex(T, v0), WorldVertex(T, v0 + 1),
                        WorldVertex(T, v0 + cols + 1)>>
                 ELSE <<WorldVertex(T, v0 + 1), WorldVertex(T, v0 + cols + 2),
                        WorldVertex(T, v0 + cols + 1)>> :
                 v0 \in {(((k - 1) \div 2) % cols)
                          + (((k - 1) \div 2) \div cols) * (cols + 1)}})] :
         cols \in {T.size \div T.resolution}})

\* cTrav.traverse(render) with groundRay at origin (x, y, 1000 m), direction
\* (0, 0, -1), in render's frame (groundColNp is attached to render, line
\* 32): the queue holds one entry per triangle of the terrain the ray meets,
\* in the order of the triangles; it is not sorted.  Each entry is kept as
\* the z of its surface point.
RECURSIVE WorldEntriesFrom(_, _, _, _)
WorldEntriesFrom(tris, x, y, k) ==
    IF k > Len(tris) THEN <<>>
    ELSE The({(IF hit = {} THEN <<>> ELSE <<The(hit)>>)
              \o WorldEntriesFrom(tris, x, y, k + 1) :
              hit \in {RayTriangle([x |-> x, y |-> y, z |-> R(10000)],
                                   [x |-> 0, y |-> 0], 0, tris[k])}})

WorldTraverse(T, x, y) == WorldEntriesFrom(WorldTriangles(T), x, y, 1)

WorldKeys == {"forward", "backward", "left", "right", "cam_left", "cam_right",
              "turn_left", "turn_right", "cam_up", "cam_down"}

\* The keys setup_controls binds to updateKeyMap (lines 274-293).
BoundKeys == WorldKeys \ {"cam_left", "cam_right"}

camDist == 100          \* camDist = 10 (line 225), in dm

\* math.cos and math.sin of a camera pitch, in units of 10^-7;
\* mouseLookTask keeps the pitch within -60 .. 0 and the model's pointer
\* moves it in steps of 30.  cos 30 = sin 60 = 0.8660254 to seven places,
\* 4.4e-9 (relative) from math.cos(math.radians(-30)).
CosPitch(p) == IF p = 0 THEN 10000000 ELSE IF p = -30 THEN 8660254 ELSE 5000000

SinPitch(p) == IF p = 0 THEN 0 ELSE IF p = -30 THEN -5000000 ELSE -8660254

\* update_camera_position (lines 233-255) for the player at player, camH = h
\* and camP = p: the camera is put at the player's position plus
\* (-sin h cos p, -cos h cos p) * camDist, at the height of the player's
\* eye minus cam_z = -sin p * camDist but never under 1.7 m, and looks at the
\* point 1.7 m above the player.  fwd is the camera's forward axis, target
\* minus position, not normalised.
update_camera_position(player, h, p) ==
    The({[x |-> RAdd(R(player.x), cam_x), y |-> RAdd(R(player.y), cam_y),
          z |-> z,
          fwd |-> [x |-> RSub(R(0), cam_x), y |-> RSub(R(0), cam_y),
                   z |-> RSub(RAdd(player.z, R(eye_height)), z)]] :
         cam_x \in {Frac(-Sin(h) * CosPitch(p) * camDist, 10000000)},
         cam_y \in {Frac(-Cos(h) * CosPitch(p) * camDist, 10000000)},
         z \in {RMax({R(eye_height),
                      RAdd(RSub(player.z, Frac(-SinPitch(p) * camDist, 10000000)),
                           R(eye_height))})}})

\* Lines 374-376: the camera at the player's eye, with hpr (actorH, 0, 0).
PlayerView(player, h) ==
    [x |-> R(player.x), y |-> R(player.y), z |-> RAdd(player.z, R(eye_height)),
     fwd |-> [x |-> R(-Sin(h)), y |-> R(Cos(h)), z |-> R(0)]]

\* The camera put back in place with its orientation left at the picture's.
RestoreCameraPositionOnly(original, view) ==
    [original EXCEPT !.fwd = view.fwd]

\* Lines 409-410: setPos(original_pos) and setHpr(original_hpr).
RestoreCamera(original, view) ==
    [view EXCEPT !.x = original.x, !.y = original.y, !.z = original.z,
                 !.fwd = original.fwd]

\* __init__ (lines 14-81): create_ground, create_player (lines 179-194, the
\* player is put on the first entry of the queue, or at z = 0 without one),
\* camera_setup (lines 221-231), setup_controls (lines 257-304).
WorldInit ==
    /\ NoMeshCall
    /\ NoViewer
    /\ NoLaunch
    /\ NoTerrainViewer
    /\ wv_terrain \in WorldTerrains
    /\ wv_entries = WorldTraverse(wv_terrain, 0, 0)
    /\ wv_player = [x |-> 0, y |-> 0,
                    z |-> IF Len(wv_entries) > 0 THEN wv_entries[1] ELSE R(0)]
    /\ wv_actorH = 180
    /\ wv_keyMap = [k \in WorldKeys |-> FALSE]
    /\ wv_events = 0
    /\ wv_frame = 0
    /\ wv_camH = 180
    /\ wv_camP = -30
    /\ wv_camera = update_camera_position(wv_player, wv_camH, wv_camP)
    /\ screenshot_count = 0
    /\ wv_files = <<>>
    /\ wv_mouseDown = FALSE
    /\ wv_lastMouse = [seen |-> FALSE, x |-> 0, y |-> 0]
    /\ wv_next_task = "moveTask"

\* A WorldViewer has been constructed and its task loop runs.
WorldViewerRunning == wv_terrain.size > 0

\* Lines 306-307, run by the event manager before the frame's tasks.
WorldViewer_updateKeyMap ==
    /\ WorldViewerRunning
    /\ wv_next_task = "moveTask"
    /\ wv_events < MaxEvents
    /\ \E key \in BoundKeys, value \in BOOLEAN :
          wv_keyMap' = [wv_keyMap EXCEPT ![key] = value]
    /\ wv_events' = wv_events + 1
    /\ UNCHANGED <<mesh_vars, look_vars, nav_vars, pv_vars, tv_vars, wv_terrain, wv_player,
                   wv_actorH, wv_entries, wv_frame, wv_camera,
                   screenshot_count, wv_files, wv_look_vars, wv_next_task>>

\* Lines 529-530, bound to mouse3 (line 297).
WorldViewer_onMouseDown ==
    /\ WorldViewerRunning
    /\ wv_next_task = "moveTask"
    /\ wv_events < MaxEvents
    /\ wv_mouseDown' = TRUE
    /\ wv_events' = wv_events + 1
    /\ UNCHANGED <<mesh_vars, look_vars, nav_vars, pv_vars, tv_vars, wv_terrain, wv_player,
                   wv_actorH, wv_keyMap, wv_entries, wv_frame, wv_camera,
                   screenshot_count, wv_files, wv_camH, wv_camP, wv_lastMouse,
                   wv_next_task>>

\* Lines 532-535, bound to mouse3-up (line 298).
WorldViewer_onMouseUp ==
    /\ WorldViewerRunning
    /\ wv_next_task = "moveTask"
    /\ wv_events < MaxEvents
    /\ wv_mouseDown' = FALSE
    /\ wv_lastMouse' = [seen |-> FALSE, x |-> 0, y |-> 0]
    /\ wv_events' = wv_events + 1
    /\ UNCHANGED <<mesh_vars, look_vars, nav_vars, pv_vars, tv_vars, wv_terrain, wv_player,
                   wv_actorH, wv_keyMap, wv_entries, wv_frame, wv_camera,
                   screenshot_count, wv_files, wv_camH, wv_camP, wv_next_task>>

\* take_picture (lines 368-410), bound to "p" (line 296): the camera is put at
\* the player's view, the colour frame is saved as screenshot_<count>.jpg and
\* the depth frame as depth_<count>.jpg, the count goes up by one and the
\* camera is put back.
WorldViewer_take_picture ==
    /\ WorldViewerRunning
    /\ wv_next_task = "moveTask"
    /\ wv_events < MaxEvents
    /\ \E original \in {wv_camera} :
       \E view \in {PlayerView(wv_player, wv_actorH)} :
          /\ wv_files' = wv_files \o <<<<"screenshot", screenshot_count>>,
                                       <<"depth", screenshot_count>>>>
          /\ screenshot_count' = screenshot_count + 1
          /\ wv_camera' = RestoreCamera(original, view)
    /\ wv_events' = wv_events + 1
    /\ UNCHANGED <<mesh_vars, look_vars, nav_vars, pv_vars, tv_vars, wv_terrain, wv_player,
                   wv_actorH, wv_keyMap, wv_entries, wv_frame, wv_look_vars,
                   wv_next_task>>

\* globalClock.getDt() squared, in ms^2: 0.9 s, in which a turn key turns the
\* actor by 90 degrees and a step is 4.5 m, and 0.9 * sqrt(2) s, in which a
\* diagonal step covers 4.5 m along each axis.
WorldDt2s == {810000, 1620000}

\* (dt * speed)^2 in dm^2 (line 341).
WorldStep2(dt2) == (wv_speed * wv_speed * (dt2 \div 10000)) \div 100

\* Lines 315-321: actorH after the turn keys, for a frame of dt2 = 810000.
WorldTurn(h, km) ==
    (h + (IF km["turn_left"] THEN (turn_speed * 900) \div 1000 ELSE 0)
       - (IF km["turn_right"] THEN (turn_speed * 900) \div 1000 ELSE 0)) % 360


\* Lines 327-336: move_vec before it is normalised.
WorldMoveDirection(h, km) ==
    The({[x |-> (IF km["forward"] THEN forward.x ELSE 0)
                - (IF km["backward"] THEN forward.x ELSE 0)
                - (IF km["left"] THEN right.x ELSE 0)
                + (IF km["right"] THEN right.x ELSE 0),
          y |-> (IF km["forward"] THEN forward.y ELSE 0)
                - (IF km["backward"] THEN forward.y ELSE 0)
                - (IF km["left"] THEN right.y ELSE 0)
                + (IF km["right"] THEN right.y ELSE 0)] :
         forward \in {[x |-> Sin(h), y |-> Cos(h)]},
         right \in {[x |-> Cos(h), y |-> -Sin(h)]}})

\* The player moved to new_pos whether or not the ray met the ground.
WorldPlaceUnchecked(player, new_pos, entries) ==
    [x |-> new_pos.x, y |-> new_pos.y,
     z |-> IF Len(entries) > 0 THEN entries[1] ELSE player.z]

\* Lines 349-353: with an entry in the queue the player is put at new_pos on
\* the ground of the first entry; without one setPos is not called.
WorldPlace(player, new_pos, entries) ==
    IF Len(entries) > 0
    THEN [x |-> new_pos.x, y |-> new_pos.y, z |-> entries[1]]
    ELSE player

\* Lines 309-366; the task manager runs it first in every frame (line 303).
\* A frame in which exactly one turn key is held lasts 0.9 s.
WorldViewer_moveTask ==
    /\ WorldViewerRunning
    /\ wv_next_task = "moveTask"
    /\ wv_frame < MaxFrames
    /\ \E dt2 \in WorldDt2s, scale \in {45} :
       \E h \in {IF dt2 = 810000 THEN WorldTurn(wv_actorH, wv_keyMap) ELSE wv_actorH} :
       \E dir \in {WorldMoveDirection(h, wv_keyMap)} :
          /\ dt2 # 810000 => wv_keyMap["turn_left"] = wv_keyMap["turn_right"]
          /\ scale * scale * (IF dir = [x |-> 0, y |-> 0] THEN 1
                              ELSE dir.x * dir.x + dir.y * dir.y)
                = WorldStep2(dt2)
          /\ wv_actorH' = h
          /\ IF dir # [x |-> 0, y |-> 0]                          \* line 339
             THEN \E new_pos \in {[x |-> wv_player.x + dir.x * scale,
                                    y |-> wv_player.y + dir.y * scale]} :
                  \E entries \in {WorldTraverse(wv_terrain, new_pos.x, new_pos.y)} :
                     /\ wv_entries' = entries
                     /\ wv_player' = WorldPlace(wv_player, new_pos, entries)
             ELSE UNCHANGED <<wv_player, wv_entries>>
    /\ wv_camera' = update_camera_position(wv_player', wv_camH, wv_camP) \* line 357
    /\ wv_next_task' = "mouseLookTask"
    /\ wv_frame' = wv_frame + 1
    /\ UNCHANGED <<mesh_vars, look_vars, nav_vars, pv_vars, tv_vars, wv_terrain, wv_keyMap,
                   wv_events, screenshot_count, wv_files, wv_look_vars>>

\* The pointer positions the mouse watcher reports to the WorldViewer, in
\* tenths: a move of 0.9 along x turns the camera by 90 degrees, one of 0.3
\* along y pitches it by 30.
WorldMouse == {[x |-> 0, y |-> 0], [x |-> 9, y |-> 0], [x |-> 9, y |-> 3]}

\* Line 547: the pitch is kept within -60 .. 0.
WorldClampPitch(pp) == IF pp < -60 THEN -60 ELSE IF pp > 0 THEN 0 ELSE pp

\* Lines 537-552, added after moveTask (line 304).  camH is not wrapped.
WorldViewer_mouseLookTask ==
    /\ WorldViewerRunning
    /\ wv_next_task = "mouseLookTask"
    /\ \E hasMouse \in BOOLEAN : \E m \in WorldMouse :
          IF hasMouse /\ wv_mouseDown
          THEN /\ IF wv_lastMouse.seen
                  THEN /\ wv_camH' = wv_camH + (m.x - wv_lastMouse.x) * 10
                       /\ wv_camP' = WorldClampPitch(
                                         wv_camP - (m.y - wv_lastMouse.y) * 10)
                  ELSE UNCHANGED <<wv_camH, wv_camP>>
               /\ wv_lastMouse' = [seen |-> TRUE, x |-> m.x, y |-> m.y]
          ELSE UNCHANGED <<wv_camH, wv_camP, wv_lastMouse>>
    /\ wv_next_task' = "moveTask"
    /\ wv_events' = 0
    /\ UNCHANGED <<mesh_vars, look_vars, nav_vars, pv_vars, tv_vars, wv_terrain, wv_player,
                   wv_actorH, wv_keyMap, wv_entries, wv_frame, wv_camera,
                   screenshot_count, wv_files, wv_mouseDown>>

\* self.cTrav is set (line 26), so ShowBase's collisionLoop task traverses
\* once more at the end of every frame.  groundRay hangs under render (line
\* 32) and keeps the origin and direction of the last query, and the terrain
\* does not move: the traverse refills groundHandler with the entries it
\* already holds, and wv_entries is left as it is.
WorldNext ==
    \/ WorldViewer_updateKeyMap
    \/ WorldViewer_onMouseDown
    \/ WorldViewer_onMouseUp
    \/ WorldViewer_take_picture
    \/ WorldViewer_moveTask
    \/ WorldViewer_mouseLookTask

SpecWorld == WorldInit /\ [][WorldNext]_vars

\* ======================================= launch_interactive_viewer
\* src/interactive_viewer.py.  Lengths are in the mesh's units (metres).

\* create_mesh_from_dem as one call, for a DEM whose sampled grid is at
\* least 2 x 2: the steps Downsample .. CleanupAndReturn composed.
create_mesh_from_dem(dem, t, factor) ==
    The({The({The({Cleanup([vertices |-> vs, triangles |-> fs,
                            vertex_normals |-> ComputeVertexNormals(vs, fs)]) :
                   fs \in {ValidFaces(CreateFaces(sm.rows, sm.cols), Len(vs))}}) :
              vs \in {CreateVertices(sm, t, factor)}}) :
         sm \in {Select(dem, Linspace(dem.rows - 1, dem.rows \div factor),
                             Linspace(dem.cols - 1, dem.cols \div factor))}})

RECURSIVE RSum(_)
RSum(a) == IF a = <<>> THEN R(0) ELSE RAdd(Head(a), RSum(Tail(a)))

\* np.mean over one coordinate of the vertices (line 70).
Mean(a) == RDiv(RSum(a), R(Len(a)))

\* Lines 65-72 and 86-87: the vertices centred on their mean, z inverted.
PvMesh(m) ==
    The({[vertices |-> [k \in 1..Len(m.vertices) |->
                          [x |-> RSub(m.vertices[k].x, center_offset.x),
                           y |-> RSub(m.vertices[k].y, center_offset.y),
                           z |-> RSub(R(0), RSub(m.vertices[k].z, center_offset.z))]],
          triangles |-> m.triangles] :
         center_offset \in
            {[x |-> Mean([k \in 1..Len(m.vertices) |-> m.vertices[k].x]),
              y |-> Mean([k \in 1..Len(m.vertices) |-> m.vertices[k].y]),
              z |-> Mean([k \in 1..Len(m.vertices) |-> m.vertices[k].z])]}})

\* The heights in S from the greatest down.
RECURSIVE SortDescending(_)
SortDescending(S) ==
    IF S = {} THEN <<>>
    ELSE The({<<top>> \o SortDescending(S \ {top}) : top \in {RMax(S)}})

\* Where the segment from (x, y, 2000) to (x, y, -2000) meets triangle tri,
\* as a set of heights (empty or one height); edges and corners belong to
\* the triangle.  The plane's normal is taken at 1/1000 of its length.
SegmentTriangle(tri, x, y) ==
    The({IF ~IsFinite(k) \/ RLess(k, R(-2000)) \/ RLess(R(2000), k)
            \/ ~InsideTriangle(tri, R(x), R(y))
         THEN {} ELSE {RSub(R(0), k)} :
         k \in {PlaneHit([x |-> x, y |-> y, z |-> R(0)], [x |-> 0, y |-> 0], tri, n) :
                n \in {[x |-> RDiv(m.x, R(1000)), y |-> RDiv(m.y, R(1000)),
                        z |-> RDiv(m.z, R(1000))] : m \in {PlaneNormal(tri)}}}})

\* pv_mesh.ray_trace((x, y, 2000), (x, y, -2000)), line 104: the points where
\* the segment meets the mesh, ordered from the start point, kept as their
\* z; coincident intersections with neighbouring triangles give one point.
RayTrace(M, x, y) ==
    SortDescending(
        UNION {SegmentTriangle(<<M.vertices[M.triangles[k][1] + 1],
                                 M.vertices[M.triangles[k][2] + 1],
                                 M.vertices[M.triangles[k][3] + 1]>>, x, y) :
               k \in 1..Len(M.triangles)})

\* Lines 121 and 132: the 100 m and the 1 km reference markers, in order.
MarkerPositions ==
    << <<100, 0>>, <<-100, 0>>, <<0, 100>>, <<0, -100>>,
       <<1000, 0>>, <<-1000, 0>>, <<0, 1000>>, <<0, -1000>> >>

\* The meshes the viewer is launched with: built from the DEMs of at most
\* 3 x 3 cells that are not flat (a flat DEM gives a mesh of NaN heights).
LaunchDems ==
    {dem \in Dems : /\ dem.rows <= 3 /\ dem.cols <= 3
                    /\ \E rc \in DOMAIN dem.data : dem.data[rc] # dem.data[<<0, 0>>]}

\* The georeferences of those DEMs: the invertible transforms.
LaunchTransforms == {t \in Transforms : t.a * t.e - t.b * t.d # 0}

\* Lines 64-98.
LaunchInit ==
    /\ NoMeshCall
    /\ NoViewer
    /\ NoWorldViewer
    /\ NoTerrainViewer
    /\ \E dem \in LaunchDems, t \in LaunchTransforms :
          pv_mesh = PvMesh(create_mesh_from_dem(dem, t, 1))
    /\ pv_pc = "launched"
    /\ intersection = <<>>
    /\ observer_position = [x |-> 0, y |-> 0, z |-> R(0)]
    /\ markers = <<>>

\* Lines 115-118, with get_ground_height (lines 101-113) at (0, 0).
\* len(intersection) at line 106 is the length of the pair (points, cells)
\* and is always 2, so without an intersection line 108 raises IndexError.
PlaceObserver ==
    /\ pv_pc = "launched"
    /\ \E points \in {RayTrace(pv_mesh, 0, 0)} :
          /\ intersection' = points
          /\ IF points = <<>>
             THEN /\ pv_pc' = "raised"
                  /\ UNCHANGED observer_position
             ELSE /\ pv_pc' = "markers"
                  /\ observer_position' =
                        [x |-> 0, y |-> -100, z |-> RAdd(points[1], Frac(17, 10))]
    /\ UNCHANGED <<mesh_vars, look_vars, nav_vars, world_vars, tv_vars, pv_mesh, markers>>

\* Lines 120-140: one turn of the marker loops, with get_ground_height at
\* the marker's position.
PlaceMarker ==
    /\ pv_pc = "markers"
    /\ \E xy \in {MarkerPositions[Len(markers) + 1]} :
       \E points \in {RayTrace(pv_mesh, xy[1], xy[2])} :
          /\ intersection' = points
          /\ IF points = <<>>
             THEN /\ pv_pc' = "raised"
                  /\ UNCHANGED markers
             ELSE /\ markers' = Append(markers, [x |-> xy[1], y |-> xy[2],
                                                 height |-> points[1]])
                  /\ pv_pc' = IF Len(markers) + 1 = Len(MarkerPositions)
                              THEN "shown" ELSE "markers"
    /\ UNCHANGED <<mesh_vars, look_vars, nav_vars, world_vars, tv_vars, pv_mesh,
                   observer_position>>

LaunchNext ==
    \/ PlaceObserver
    \/ PlaceMarker

SpecLaunch == LaunchInit /\ [][LaunchNext]_vars

\* ========================================================== TerrainViewer
\* src/interactive_viewer/terrain_viewer.py.  Lengths in decimetres, angles
\* in degrees, times in ms.  Positions are exact rationals.

tv_speed == 200             \* speed = 20.0 (line 255), in dm/s

desired_height == 17        \* desired_height = eye_height = 1.7 (lines 75-76)

TerrainRayOffset == 10000   \* Vec3(0, 1000, 0) (line 298), in dm

TerrainRange == 2000        \* scale = 200.0 / max_range (line 144), in dm

\* The keys of self.keyMap (lines 95-102), all bound to updateKeyMap.
TerrainKeys == {"forward", "backward", "left", "right", "up", "down"}

\* A mesh of one unit quad with the given heights at (0,0), (1,0), (0,1) and
\* (1,1), split into [v0, v2, v3] and [v0, v3, v1].
TerrainQuad(z0, z1, z2, z3) ==
    [vertices |-> << [x |-> R(0), y |-> R(0), z |-> R(z0)],
                     [x |-> R(1), y |-> R(0), z |-> R(z1)],
                     [x |-> R(0), y |-> R(1), z |-> R(z2)],
                     [x |-> R(1), y |-> R(1), z |-> R(z3)] >>,
     triangles |-> << <<0, 2, 3>>, <<0, 3, 1>> >>]

\* The meshes a TerrainViewer is constructed with: a flat quad, one that
\* rises along x and one that rises along y.
TerrainMeshes ==
    {TerrainQuad(0, 0, 0, 0), TerrainQuad(0, 1, 0, 1), TerrainQuad(0, 0, 1, 1)}

\* np.ptp of one coordinate of the vertices (line 143).
TerrainPtp(a) == RSub(RMax(Range(a)), RMin(Range(a)))

\* create_terrain_node, lines 132-186: the vertices are centred on their
\* mean, scaled so that the widest axis spans 200 m, and written with the
\* mesh's z as y and the mesh's -y as z; the triangles of the solid geometry
\* are the mesh's.  The wireframe and the centre line are GeomLines, which a
\* collision ray does not meet.
create_terrain_node(m) ==
    LET xs == [k \in 1..Len(m.vertices) |-> m.vertices[k].x]
        ys == [k \in 1..Len(m.vertices) |-> m.vertices[k].y]
        zs == [k \in 1..Len(m.vertices) |-> m.vertices[k].z]
        max_range == RMax({TerrainPtp(xs), TerrainPtp(ys), TerrainPtp(zs)})
        scale == RDiv(R(TerrainRange), max_range)
        center == [x |-> RDiv(RSum(xs), R(Len(xs))),
                   y |-> RDiv(RSum(ys), R(Len(ys))),
                   z |-> RDiv(RSum(zs), R(Len(zs)))]
        vertices_panda == [k \in 1..Len(m.vertices) |->
            [x |-> RMul(RSub(xs[k], center.x), scale),
             y |-> RMul(RSub(zs[k], center.z), scale),
             z |-> RSub(R(0), RMul(RSub(ys[k], center.y), scale))]]
    IN  [k \in 1..Len(m.triangles) |->
            <<vertices_panda[m.triangles[k][1] + 1],
              vertices_panda[m.triangles[k][2] + 1],
              vertices_panda[m.triangles[k][3] + 1]>>]

\* A vector of the camera's frame in render's frame, for a camera with
\* heading h and level pitch: the rotation by h about the z axis.
TerrainRotate(h, v) ==
    [x |-> RSub(RMul(v.x, R(Cos(h))), RMul(v.y, R(Sin(h)))),
     y |-> RAdd(RMul(v.x, R(Sin(h))), RMul(v.y, R(Cos(h)))),
     z |-> v.z]

\* The coordinates of v across a ray along axis (an axis of render's frame
\* in the x-y plane).
TerrainAcross(v, axis) ==
    IF axis.x # 0 THEN [x |-> v.y, y |-> v.z] ELSE [x |-> v.x, y |-> v.z]

\* The y at which the line of points through + k * axis, k <= TerrainRayOffset,
\* meets triangle tri, as a set: empty when the line is parallel to the
\* triangle's plane, when the plane is behind the ray's origin, or when the
\* plane is met outside the triangle.  The normal is taken at 10^-6 of its
\* length.
TerrainRayTriangle(through, axis, tri) ==
    UNION {IF ~IsFinite(k) \/ RLess(R(TerrainRayOffset), k) THEN {}
           ELSE IF \E at \in {[x |-> RAdd(through.x, RMul(k, R(axis.x))),
                               y |-> RAdd(through.y, RMul(k, R(axis.y))),
                               z |-> through.z]} :
                   \E c \in {TerrainAcross(at, axis)} :
                      InsideTriangle(<<TerrainAcross(tri[1], axis),
                                       TerrainAcross(tri[2], axis),
                                       TerrainAcross(tri[3], axis)>>, c.x, c.y)
                THEN {RAdd(through.y, RMul(k, R(axis.y)))}
                ELSE {} :
           k \in {RDiv(RAdd(RAdd(RMul(n.x, RSub(tri[1].x, through.x)),
                                 RMul(n.y, RSub(tri[1].y, through.y))),
                            RMul(n.z, RSub(tri[1].z, through.z))),
                       RAdd(RMul(n.x, R(axis.x)), RMul(n.y, R(axis.y)))) :
                  n \in {[x |-> RDiv(m.x, R(1000000)), y |-> RDiv(m.y, R(1000000)),
                          z |-> RDiv(m.z, R(1000000))] : m \in {PlaneNormal(tri)}}}}

\* cTrav.traverse(render) with the camera at cam and heading h, its pitch
\* level, and the ray's origin set to origin + (0, 1000, 0) (line 298): the y
\* of the surface point of every entry.  groundColNp is a child of the camera
\* (line 25), so the origin and the direction (0, -1, 0) of lines 298-299 are
\* in the camera's frame: in render's frame the ray starts at
\* cam + rot(origin) + 1000 m * fwd and runs along -fwd, where rot is the
\* camera's rotation and fwd = (-sin h, cos h, 0) its forward axis.
TerrainEntries(T, cam, origin, h) ==
    The({UNION {TerrainRayTriangle(through, fwd, T[k]) : k \in 1..Len(T)} :
         through \in {The({[x |-> RAdd(cam.x, r.x), y |-> RAdd(cam.y, r.y),
                            z |-> RAdd(cam.z, r.z)] :
                           r \in {TerrainRotate(h, origin)}})},
         fwd \in {[x |-> -Sin(h), y |-> Cos(h)]}})

\* globalClock.getDt() squared, in ms^2: 0.05 s, in which a step is 1 m, and
\* 0.05 * sqrt(2) s, in which a diagonal step covers 1 m along each axis.
TerrainDt2s == {2500, 5000}

\* (dt * speed)^2 in dm^2 (line 283).
TerrainStep2(dt2) == (tv_speed * tv_speed * dt2) \div 1000000

\* Lines 264-278: move_vec before it is normalised.
TerrainMoveDirection(h, km) ==
    The({[x |-> (IF km["forward"] THEN forward.x ELSE 0)
                - (IF km["backward"] THEN forward.x ELSE 0)
                - (IF km["left"] THEN right.x ELSE 0)
                + (IF km["right"] THEN right.x ELSE 0),
          y |-> (IF km["forward"] THEN forward.y ELSE 0)
                - (IF km["backward"] THEN forward.y ELSE 0)
                - (IF km["left"] THEN right.y ELSE 0)
                + (IF km["right"] THEN right.y ELSE 0)] :
         forward \in {[x |-> Sin(h), y |-> Cos(h)]},
         right \in {[x |-> Cos(h), y |-> -Sin(h)]}})

\* Lines 282-283: the factor by which the summed direction dir is multiplied,
\* (dt * speed) / |dir|, for the frame times at which it is a whole number
\* of decimetres (for the zero vector, which is not scaled, dt * speed).
TerrainScale(dir, step2) ==
    {scale \in 1..(2 * MaxCoord) :
        scale * scale * (IF dir = [x |-> 0, y |-> 0] THEN 1
                         ELSE dir.x * dir.x + dir.y * dir.y) = step2}

\* Line 337.
TerrainWrapHeading(h) == h % 360

\* Line 341.
TerrainClampPitch(pp) ==
    LET lower == IF pp < 89 THEN pp ELSE 89
    IN  IF lower > -89 THEN lower ELSE -89

\* Lines 325-350.  mouseX and mouseY are in tenths; the sensitivity is 50
\* degrees per unit.
TerrainMouseLook(hasMouse, mouseX, mouseY) ==
    IF ~hasMouse
    THEN [camH |-> tv_camH, camP |-> tv_camP, lastMouse |-> tv_lastMouse]
    ELSE LET look == tv_mouseDown /\ tv_lastMouse.seen
             deltaX == IF look THEN mouseX - tv_lastMouse.x ELSE 0
             deltaY == IF look THEN mouseY - tv_lastMouse.y ELSE 0
             h == TerrainWrapHeading(tv_camH - (deltaX * 50) \div 10)
             pp == TerrainClampPitch(tv_camP + (deltaY * 50) \div 10)
         IN  [camH |-> IF look THEN h ELSE tv_camH,
              camP |-> IF look THEN pp ELSE tv_camP,
              lastMouse |-> [seen |-> TRUE, x |-> mouseX, y |-> mouseY]]

\* __init__ (lines 15-129): the terrain node is built from the mesh, the
\* camera is put at (0, 0, 1.7 m) with heading 180 and pitch 0, the keys are
\* up, and moveTask and mouseLookTask are added in this order.  self.cTrav is
\* set (line 19), so ShowBase's collisionLoop task, of sort 30, traverses
\* with it at the end of every frame, after the two tasks of sort 0.
TerrainInit ==
    /\ NoMeshCall
    /\ NoViewer
    /\ NoWorldViewer
    /\ NoLaunch
    /\ tv_terrain \in {create_terrain_node(m) : m \in TerrainMeshes}
    /\ tv_camera = [x |-> R(0), y |-> R(0), z |-> R(desired_height)]
    /\ tv_camH = 180
    /\ tv_camP = 0
    /\ tv_keyMap = [k \in TerrainKeys |-> FALSE]
    /\ tv_mouseDown = FALSE
    /\ tv_lastMouse = [seen |-> FALSE, x |-> 0, y |-> 0]
    /\ tv_entries = {}
    /\ tv_next_task = "moveTask"
    /\ tv_frame = 0
    /\ tv_events = 0
    /\ tv_move = NoTerrainMove

\* A TerrainViewer has been constructed and its task loop runs.
TerrainViewerRunning == tv_next_task # "none"

\* Lines 250-251, run by the event manager before the frame's tasks.
TerrainViewer_updateKeyMap ==
    /\ tv_next_task = "moveTask"
    /\ tv_events < MaxEvents
    /\ \E key \in TerrainKeys, value \in BOOLEAN :
          tv_keyMap' = [tv_keyMap EXCEPT ![key] = value]
    /\ tv_events' = tv_events + 1
    /\ UNCHANGED <<mesh_vars, look_vars, nav_vars, world_vars, pv_vars,
                   tv_terrain, tv_camera, tv_entries, tv_next_task, tv_frame,
                   tv_move, tv_look_vars>>

\* Lines 244-245.
TerrainViewer_onMouseDown ==
    /\ tv_next_task = "moveTask"
    /\ tv_events < MaxEvents
    /\ tv_mouseDown' = TRUE
    /\ tv_events' = tv_events + 1
    /\ UNCHANGED <<mesh_vars, look_vars, nav_vars, world_vars, pv_vars,
                   tv_terrain, tv_camera, tv_keyMap, tv_entries, tv_next_task,
                   tv_frame, tv_move, tv_camH, tv_camP, tv_lastMouse>>

\* Lines 247-248.
TerrainViewer_onMouseUp ==
    /\ tv_next_task = "moveTask"
    /\ tv_events < MaxEvents
    /\ tv_mouseDown' = FALSE
    /\ tv_events' = tv_events + 1
    /\ UNCHANGED <<mesh_vars, look_vars, nav_vars, world_vars, pv_vars,
                   tv_terrain, tv_camera, tv_keyMap, tv_entries, tv_next_task,
                   tv_frame, tv_move, tv_camH, tv_camP, tv_lastMouse>>

\* Lines 253-323; the task manager runs it first in every frame (line 120).
\* The camera is moved by move_vec (lines 281-285); the ground check of
\* lines 297-314 sets the ray from the camera's position pos, traverses, and
\* puts the camera's y at desired_height over the greatest y among the
\* entries, keeping x and z, or leaves it where it is without an entry.
TerrainViewer_moveTask ==
    /\ tv_next_task = "moveTask"
    /\ tv_frame < MaxFrames
    /\ \E dt2 \in TerrainDt2s, dir \in {TerrainMoveDirection(tv_camH, tv_keyMap)} :
       \E scale \in TerrainScale(dir, TerrainStep2(dt2)) :
       \E pos \in {IF dir # [x |-> 0, y |-> 0]                     \* line 281
                   THEN [tv_camera EXCEPT
                           !.x = RAdd(@, R(dir.x * scale)),
                           !.y = RAdd(@, R(dir.y * scale))]
                   ELSE tv_camera} :
       \E entries \in {TerrainEntries(tv_terrain, pos, pos, tv_camH)} :
          /\ tv_entries' = entries
          /\ tv_camera' = IF entries # {}                          \* line 307
                          THEN [pos EXCEPT
                                  !.y = RAdd(RMax(entries), R(desired_height))]
                          ELSE pos
          /\ tv_move' = [moved |-> dir # [x |-> 0, y |-> 0], new_pos |-> pos,
                         step2 |-> TerrainStep2(dt2), entries |-> entries]
    /\ tv_next_task' = "mouseLookTask"
    /\ tv_frame' = tv_frame + 1
    /\ UNCHANGED <<mesh_vars, look_vars, nav_vars, world_vars, pv_vars,
                   tv_terrain, tv_keyMap, tv_events, tv_look_vars>>

\* The pointer positions the mouse watcher reports to the TerrainViewer, in
\* tenths: a move of 1.8 along x turns the camera by 90 degrees.  The
\* pointer's y is kept, so that the camera stays level.
TerrainMouse == {[x |-> -9, y |-> 0], [x |-> 9, y |-> 0]}

\* Lines 325-350; runs after moveTask in every frame (line 127).
TerrainViewer_mouseLookTask ==
    /\ tv_next_task = "mouseLookTask"
    /\ \E hasMouse \in BOOLEAN : \E m \in TerrainMouse :
          LET look == TerrainMouseLook(hasMouse, m.x, m.y)
          IN  /\ tv_camH' = look.camH
              /\ tv_camP' = look.camP
              /\ tv_lastMouse' = look.lastMouse
    /\ tv_next_task' = "collisionLoop"
    /\ UNCHANGED <<mesh_vars, look_vars, nav_vars, world_vars, pv_vars,
                   tv_terrain, tv_camera, tv_keyMap, tv_entries, tv_frame,
                   tv_events, tv_move, tv_mouseDown>>

\* ShowBase's collisionLoop: self.cTrav.traverse(render) once more at the end
\* of the frame (self.cTrav and its collider, lines 19 and 27).  The ray is
\* as moveTask set it, from the position tv_move.new_pos it read at line 288;
\* the camera that carries it has since been put on the ground (line 310)
\* and turned by mouseLookTask.  The queue is refilled; nothing reads it
\* before the next frame's moveTask traverses again.
TerrainViewer_collisionLoop ==
    /\ tv_next_task = "collisionLoop"
    /\ tv_entries' = TerrainEntries(tv_terrain, tv_camera, tv_move.new_pos, tv_camH)
    /\ tv_next_task' = "moveTask"
    /\ tv_events' = 0
    /\ UNCHANGED <<mesh_vars, look_vars, nav_vars, world_vars, pv_vars,
                   tv_terrain, tv_camera, tv_keyMap, tv_frame, tv_move,
                   tv_look_vars>>

TerrainNext ==
    \/ TerrainViewer_updateKeyMap
    \/ TerrainViewer_onMouseDown
    \/ TerrainViewer_onMouseUp
    \/ TerrainViewer_moveTask
    \/ TerrainViewer_mouseLookTask
    \/ TerrainViewer_collisionLoop

\* ---- the look controls on their own, for both first-person viewers, with
\* pointer readings that swing the view by up to 100 degrees a frame.
\* Lines 325-350 of terrain_viewer.py.
TerrainViewer_mouseLookTaskWide ==
    /\ tv_next_task = "moveTask"
    /\ \E hasMouse \in BOOLEAN : \E m \in LookMouse :
          LET look == TerrainMouseLook(hasMouse, m.x, m.y)
          IN  /\ tv_camH' = look.camH
              /\ tv_camP' = look.camP
              /\ tv_lastMouse' = look.lastMouse
    /\ tv_events' = 0
    /\ UNCHANGED <<mesh_vars, look_vars, nav_vars, world_vars, pv_vars,
                   tv_terrain, tv_camera, tv_keyMap, tv_entries, tv_next_task,
                   tv_frame, tv_move, tv_mouseDown>>

LookInit ==
    \/ NavInit
    \/ TerrainInit

LookNext ==
    \/ onMouseDown
    \/ onMouseUp
    \/ mouseLookTaskWide
    \/ TerrainViewer_onMouseDown
    \/ TerrainViewer_onMouseUp
    \/ TerrainViewer_mouseLookTaskWide

SpecLook == LookInit /\ [][LookNext]_vars

\* ================================================== the viewers
\* A session runs one of the repository's viewers: SimpleCameraViewer,
\* WorldViewer, launch_interactive_viewer, or TerrainViewer.
GroundInit ==
    \/ NavInit
    \/ WorldInit
    \/ LaunchInit
    \/ TerrainInit

GroundNext ==
    \/ NavNext
    \/ WorldNext
    \/ LaunchNext
    \/ TerrainNext

SpecGround == GroundInit /\ [][GroundNext]_vars

\* ---- the two builders of a surface from a grid: create_mesh_from_dem and
\* SimpleCameraViewer.create_terrain
TriangulationInit ==
    \/ MeshInit
    \/ NavInit

TriangulationNext ==
    \/ MeshNext
    \/ NavNext

SpecTriangulation == TriangulationInit /\ [][TriangulationNext]_vars


\* ------------------------------------------------- mesh builder properties
SampledRows == dem_data.rows \div downsample_factor

SampledCols == dem_data.cols \div downsample_factor

\* C1: with downsample factor 1 a grid of rows x cols cells (both >= 2)
\* gives exactly rows*cols vertices and 2*(rows-1)*(cols-1) triangles, both
\* in the generated arrays and in the mesh assembled before cleanup runs.
C1_CountsBeforeCleanup ==
    downsample_factor = 1 =>
        /\ pc = "faces" =>
              /\ Len(vertices) = dem_data.rows * dem_data.cols
              /\ Len(faces) = 2 * (dem_data.rows - 1) * (dem_data.cols - 1)
        /\ pc = "built" =>
              /\ Len(mesh.vertices) = dem_data.rows * dem_data.cols
              /\ Len(mesh.triangles) = 2 * (dem_data.rows - 1) * (dem_data.cols - 1)

C1_Witness ==
    /\ pc = "built" /\ downsample_factor = 1
    /\ dem_data.rows = 3 /\ dem_data.cols = 4
    /\ Len(mesh.triangles) = 12

\* C2: every index of every triangle of a returned mesh is >= 0 and
\* smaller than the number of vertices of that mesh.
C2_IndicesInRange ==
    pc = "returned" =>
        \A k \in 1..Len(mesh.triangles) : \A c \in 1..3 :
            /\ mesh.triangles[k][c] >= 0
            /\ mesh.triangles[k][c] < Len(mesh.vertices)

C2_Witness ==
    /\ pc = "returned" /\ downsample_factor = 2
    /\ Len(mesh.vertices) = 6 /\ Len(mesh.triangles) = 4

\* C8: the sampled grid has floor(rows/factor) rows and floor(cols/factor)
\* columns; the call raises only when one of the two is smaller than 2, and
\* then it never builds or returns a mesh.
C8_SampledShape ==
    LET small == SampledRows < 2 \/ SampledCols < 2
    IN  /\ pc # "start" =>
              /\ sampled.rows = SampledRows /\ Len(row_indices) = SampledRows
              /\ sampled.cols = SampledCols /\ Len(col_indices) = SampledCols
        /\ small => pc \notin {"built", "returned"}
        /\ pc = "raised" => small

C8_Witness ==
    /\ pc = "raised" /\ downsample_factor = 2
    /\ dem_data.rows = 3 /\ dem_data.cols = 5
    /\ sampled.rows = 1 /\ sampled.cols = 2

Cells == (0..(dem_data.rows - 1)) \X (0..(dem_data.cols - 1))

VertexOf(rc) == vertices[rc[1] * dem_data.cols + rc[2] + 1]

AllSelectedOnce ==
    /\ row_indices = [i \in 1..dem_data.rows |-> i - 1]
    /\ col_indices = [j \in 1..dem_data.cols |-> j - 1]
    /\ sampled = dem_data
    /\ Len(vertices) = dem_data.rows * dem_data.cols

\* C9: with downsample factor 1 every (row, col) is selected
\* exactly once and its vertex is (world x, world y, elevation), the world
\* coordinates being those of the affine transform at (row, col).
C9_WorldCoordinates ==
    (downsample_factor = 1 /\ pc = "vertices") =>
        /\ AllSelectedOnce
        /\ \A rc \in Cells :
              /\ VertexOf(rc).x = TransformXY(transform, rc[1], rc[2]).x
              /\ VertexOf(rc).y = TransformXY(transform, rc[1], rc[2]).y
              /\ VertexOf(rc).z = R(dem_data.data[rc])

IdentityTransform == [a |-> 1, b |-> 0, c |-> 0, d |-> 0, e |-> 1, f |-> 0]

FlatZeroGrid3x3 ==
    /\ dem_data.rows = 3 /\ dem_data.cols = 3
    /\ \A rc \in Cells : dem_data.data[rc] = 0
    /\ transform = IdentityTransform
    /\ downsample_factor = 1

\* C11: for the 3x3 all-zero grid with the identity transform (scale 1,
\* origin (0,0)) the returned mesh has 9 vertices and 8 triangles and every
\* per-vertex normal is (0, 0, 1).
C11_FlatGridNormals ==
    (pc = "returned" /\ FlatZeroGrid3x3) =>
        /\ Len(mesh.vertices) = 9
        /\ Len(mesh.triangles) = 8
        /\ Len(mesh.vertex_normals) = 9
        /\ \A k \in 1..9 :
              mesh.vertex_normals[k] = [x |-> 0, y |-> 0, z |-> 1, norm2 |-> 1]

C11_Witness ==
    /\ pc = "returned" /\ FlatZeroGrid3x3
    /\ Len(mesh.vertex_normals) = 9
    /\ mesh.vertex_normals[5] = [x |-> 0, y |-> 0, z |-> 1, norm2 |-> 1]
    /\ IsNaN(mesh.vertices[5].z)

\* C13: every returned mesh has at least one triangle and no triangle that
\* uses a vertex index twice; a call whose mesh would have no triangle ends
\* in an error and returns nothing.  (The vertices of a grid under an
\* invertible transform are pairwise different, so the cleanup merges none.)
C13_NonEmptyNonDegenerate ==
    /\ pc = "returned" =>
          /\ Len(mesh.triangles) >= 1
          /\ \A k \in 1..Len(mesh.triangles) :
                /\ mesh.triangles[k][1] # mesh.triangles[k][2]
                /\ mesh.triangles[k][2] # mesh.triangles[k][3]
                /\ mesh.triangles[k][3] # mesh.triangles[k][1]
    /\ pc = "raised" => mesh = EmptyMesh

\* The 2x2 grid [[0, 0], [0, 10]]: four vertices, two triangles, returned
\* as built.
C13_Witness ==
    /\ pc = "returned" /\ downsample_factor = 1
    /\ dem_data.rows = 2 /\ dem_data.cols = 2
    /\ dem_data.data[<<0, 0>>] = 0 /\ dem_data.data[<<1, 1>>] = 10
    /\ Len(mesh.vertices) = 4
    /\ mesh.triangles = << <<0, 2, 3>>, <<0, 3, 1>> >>

\* C14: cleaning a returned (already cleaned) mesh again changes nothing:
\* the same number of vertices, the same number of triangles, and the same
\* triangles.  (The passes keep the surviving vertices in their order, so a
\* second pass that removes no vertex relabels no index.)
C14_CleanupIdempotent ==
    pc = "returned" =>
        /\ Len(Cleanup(mesh).vertices) = Len(mesh.vertices)
        /\ Len(Cleanup(mesh).triangles) = Len(mesh.triangles)
        /\ Cleanup(mesh).triangles = mesh.triangles

\* A returned mesh of a 3x3 grid with a slope along its rows, which a second
\* cleanup leaves as it is.
C14_Witness ==
    /\ pc = "returned" /\ downsample_factor = 1
    /\ dem_data.rows = 3 /\ dem_data.cols = 3
    /\ dem_data.data[<<2, 0>>] = dem_data.data[<<0, 0>>] + 2
    /\ Len(mesh.vertices) = 9 /\ Len(mesh.triangles) = 8
    /\ Cleanup(mesh) = mesh

\* The sampled cells, 0-based, and the vertex emitted for one.
SampledCells == (0..(sampled.rows - 1)) \X (0..(sampled.cols - 1))

SampledVertex(rc) == vertices[rc[1] * sampled.cols + rc[2] + 1]

\* The original (unsampled) row and column selected for a sampled cell.
SelectedRow(rc) == row_indices[rc[1] + 1]

SelectedCol(rc) == col_indices[rc[2] + 1]

\* C17: for each sampled cell the vertex's planar position is the one the
\* affine transform gives for the original row and column selected for the
\* cell (row to the transform's row argument, column to its column
\* argument); the vertices being min-max normalised, the position is
\* compared after the same normalisation onto 0..1000.
C17_SelectedIndexCoordinates ==
    pc = "vertices" =>
        LET W(rc) == TransformXY(transform, SelectedRow(rc), SelectedCol(rc))
            xlo == RMin({W(rc).x : rc \in SampledCells})
            xhi == RMax({W(rc).x : rc \in SampledCells})
            ylo == RMin({W(rc).y : rc \in SampledCells})
            yhi == RMax({W(rc).y : rc \in SampledCells})
        IN  \A rc \in SampledCells :
               /\ xhi # xlo =>
                     REq(RMul(SampledVertex(rc).x, RSub(xhi, xlo)),
                         RMul(R(1000), RSub(W(rc).x, xlo)))
               /\ yhi # ylo =>
                     REq(RMul(SampledVertex(rc).y, RSub(yhi, ylo)),
                         RMul(R(1000), RSub(W(rc).y, ylo)))

\* The k-th of n evenly spaced positions over [0, size - 1] is
\* (k - 1) * (size - 1) / (n - 1); idx[k] is that position truncated.
Truncated(idx, size) ==
    \A k \in 1..Len(idx) :
        /\ (Len(idx) - 1) * idx[k] <= (k - 1) * (size - 1)
        /\ (k - 1) * (size - 1) < (Len(idx) - 1) * (idx[k] + 1)

\* idx[k] is an integer nearest to that position (either one at a half).
Nearest(idx, size) ==
    \A k \in 1..Len(idx) :
        2 * Abs((Len(idx) - 1) * idx[k] - (k - 1) * (size - 1)) <= Len(idx) - 1

\* C18 as stated: the selected row and column indices are the evenly spaced
\* positions over [0, rows-1] and [0, cols-1] rounded to the nearest
\* integer, the first selected index is 0 and the last is rows-1 (cols-1).
C18_NearestSpacing ==
    pc # "start" =>
        /\ Len(row_indices) = SampledRows /\ Len(col_indices) = SampledCols
        /\ Nearest(row_indices, dem_data.rows)
        /\ Nearest(col_indices, dem_data.cols)
        /\ SampledRows >= 1 =>
              /\ row_indices[1] = 0
              /\ row_indices[SampledRows] = dem_data.rows - 1
        /\ SampledCols >= 1 =>
              /\ col_indices[1] = 0
              /\ col_indices[SampledCols] = dem_data.cols - 1

\* C18, amended: the selected row and column indices are the evenly spaced
\* positions over [0, rows-1] and [0, cols-1] truncated to integers; when
\* two or more indices are selected the first is 0 and the last is rows-1
\* (cols-1), and when one index is selected it is 0.
C18_TruncatedSpacing ==
    pc # "start" =>
        /\ Len(row_indices) = SampledRows /\ Len(col_indices) = SampledCols
        /\ SampledRows >= 2 =>
              /\ Truncated(row_indices, dem_data.rows)
              /\ row_indices[1] = 0
              /\ row_indices[SampledRows] = dem_data.rows - 1
        /\ SampledCols >= 2 =>
              /\ Truncated(col_indices, dem_data.cols)
              /\ col_indices[1] = 0
              /\ col_indices[SampledCols] = dem_data.cols - 1
        /\ SampledRows = 1 => row_indices = <<0>>
        /\ SampledCols = 1 => col_indices = <<0>>

C18_Witness ==
    /\ pc = "sampled" /\ downsample_factor = 2
    /\ dem_data.rows = 8 /\ dem_data.cols = 5
    /\ row_indices = <<0, 2, 4, 7>>
    /\ col_indices = <<0, 4>>

\* C20: the vertices are in row-major order of the sampled grid: there is
\* one per sampled cell, the vertex of cell (row, col) has index
\* row * cols + col, and its z is the elevation of the original cell selected
\* for (row, col), min-max normalised over the sampled elevations onto
\* 0..100 (NaN when they are all equal).
C20_RowMajorVertices ==
    pc = "vertices" =>
        LET e(rc) == dem_data.data[<<SelectedRow(rc), SelectedCol(rc)>>]
            lo == CHOOSE m \in {e(rc) : rc \in SampledCells} :
                      \A rc \in SampledCells : m <= e(rc)
            hi == CHOOSE m \in {e(rc) : rc \in SampledCells} :
                      \A rc \in SampledCells : m >= e(rc)
        IN  /\ Len(vertices) = sampled.rows * sampled.cols
            /\ \A rc \in SampledCells :
                  /\ sampled.data[rc] = e(rc)
                  /\ IF lo = hi THEN IsNaN(SampledVertex(rc).z)
                     ELSE REq(RMul(SampledVertex(rc).z, R(hi - lo)),
                              R(100 * (e(rc) - lo)))

C20_Witness ==
    /\ pc = "vertices" /\ downsample_factor = 2
    /\ dem_data.rows = 8 /\ dem_data.cols = 5
    /\ dem_data.data[<<4, 4>>] = 12 /\ dem_data.data[<<7, 4>>] = 25
    /\ sampled.rows = 4 /\ sampled.cols = 2
    /\ SelectedRow(<<2, 1>>) = 4 /\ SelectedCol(<<2, 1>>) = 4
    /\ vertices[6].z = R(48)

\* ------------------------------------------------------ viewer properties
\* The surface over the planar position (x, y): the heights at which the
\* vertical line through (x, y) meets the terrain.
SurfaceAt(x, y) ==
    GroundEntries(terrain, [x |-> x, y |-> y, z |-> R(0)], 0, 0)

OnTerrain(x, y) == SurfaceAt(x, y) # {}

\* The ground height at (x, y), for (x, y) on the terrain.
GroundHeight(x, y) == RMax(SurfaceAt(x, y))

\* (x, y) is strictly inside the terrain's footprint.
StrictlyInside(x, y) ==
    LET lo == TerrainVertex(terrain, 0, 0)
        hi == TerrainVertex(terrain, terrain.rows - 1, terrain.cols - 1)
    IN  /\ RLess(lo.x, R(x)) /\ RLess(R(x), hi.x)
        /\ RLess(lo.y, R(y)) /\ RLess(R(y), hi.y)

AfterMoveTask == frame >= 1 /\ next_task = "mouseLookTask"

\* C3: after a navigator step that leaves the observer over the terrain,
\* the observer's z is the ground height at its planar position plus the
\* eye height.
C3_AnchoredToGround ==
    (AfterMoveTask /\ OnTerrain(camera.x, camera.y)) =>
        camera.z = RAdd(GroundHeight(camera.x, camera.y), R(eye_height))

\* C4: when the ground at the desired position is higher than the ground
\* under the observer by more than max_climb = speed * dt, the step ends at
\* the slide position (0.2 of the way), not at the desired position, and not
\* at the desired position's ground height plus the eye height.
C4_ClimbLimited ==
    LET cur == move.current_pos
        des == move.desired_pos
        rise == RSub(GroundHeight(des[1], des[2]), GroundHeight(cur[1], cur[2]))
    IN  (/\ AfterMoveTask /\ move.moved
         /\ OnTerrain(cur[1], cur[2]) /\ OnTerrain(des[1], des[2])
         /\ RLess(R(0), rise) /\ RLess(R(move.max_climb2), RMul(rise, rise)))
        => /\ camera.x = cur[1] + (2 * (des[1] - cur[1])) \div 10
           /\ camera.y = cur[2] + (2 * (des[2] - cur[2])) \div 10
           /\ camera.z # RAdd(GroundHeight(des[1], des[2]), R(eye_height))

\* C5: on the grid [[0,0],[0,10]] a step of length 1 m from ground level
\* towards the 10 m corner, onto rising ground, resolves to a ground height
\* above the starting height and below 10 m.
C5_CliffStep ==
    LET cur == move.current_pos
        des == move.desired_pos
        resolved == RSub(camera.z, R(eye_height))
    IN  (/\ AfterMoveTask /\ move.moved /\ move.max_climb2 = 100
         /\ terrain.rows = 2 /\ terrain.data[<<1, 1>>] = 100
         /\ OnTerrain(cur[1], cur[2]) /\ OnTerrain(des[1], des[2])
         /\ GroundHeight(cur[1], cur[2]) = R(0)
         /\ RLess(R(0), GroundHeight(des[1], des[2])))
        => /\ RLess(GroundHeight(cur[1], cur[2]), resolved)
           /\ RLess(resolved, R(100))

\* C6 as stated: when the step's ground query at the observer's position
\* finds no intersection, z keeps the value it had before the step.
C6_HoldsPreviousZ ==
    (AfterMoveTask /\ ~move.found) => camera.z = move.prev_z

\* C10: on a flat grid of height h every ground query for a position
\* strictly inside the footprint returns h.
C10_FlatHeight ==
    LET h == terrain.data[<<0, 0>>]
    IN  (/\ AfterMoveTask /\ move.moved
         /\ \A rc \in DOMAIN terrain.data : terrain.data[rc] = h
         /\ StrictlyInside(move.desired_pos[1], move.desired_pos[2]))
        => move.new_ground_height = R(h)

\* The triangles tris of a rows x cols grid are, quad by quad in row-major
\* order, [idx, idx+cols, idx+cols+1] and [idx, idx+cols+1, idx+1]: the split
\* along the diagonal from idx (top-left) to idx+cols+1 (bottom-right).
SplitTopLeftBottomRight(tris, rows, cols) ==
    /\ Len(tris) = 2 * (rows - 1) * (cols - 1)
    /\ \A i \in 0..(rows - 2), j \in 0..(cols - 2) :
          LET idx == i * cols + j
              q == i * (cols - 1) + j
          IN  /\ tris[2 * q + 1] = <<idx, idx + cols, idx + cols + 1>>
              /\ tris[2 * q + 2] = <<idx, idx + cols + 1, idx + 1>>

\* The two triangles of every quad share the other diagonal, from idx+1
\* (top-right) to idx+cols (bottom-left): {top-left, top-right, bottom-left}
\* and {top-right, bottom-right, bottom-left}.
SplitTopRightBottomLeft(tris, rows, cols) ==
    /\ Len(tris) = 2 * (rows - 1) * (cols - 1)
    /\ \A i \in 0..(rows - 2), j \in 0..(cols - 2) :
          LET idx == i * cols + j
              q == i * (cols - 1) + j
          IN  /\ Range(tris[2 * q + 1]) = {idx, idx + 1, idx + cols}
              /\ Range(tris[2 * q + 2]) = {idx + 1, idx + cols + 1, idx + cols}

FacesCreated == pc \in {"faces", "built", "returned"}

TerrainCreated == terrain.rows >= 2

\* C19 as stated: every quad is split into [idx, idx+cols, idx+cols+1] and
\* [idx, idx+cols+1, idx+1], in create_mesh_from_dem and in the viewer's
\* create_terrain alike.
C19_SameSplitEveryPath ==
    /\ FacesCreated =>
          SplitTopLeftBottomRight(faces, sampled.rows, sampled.cols)
    /\ TerrainCreated =>
          SplitTopLeftBottomRight(TerrainIndexTriangles(terrain),
                                  terrain.rows, terrain.cols)

\* C19, amended: create_mesh_from_dem splits every quad of the sampled grid
\* into [idx, idx+cols, idx+cols+1] and [idx, idx+cols+1, idx+1]; the
\* viewer's create_terrain splits every quad of its grid along the other
\* diagonal; each of the two uses its diagonal for all of its quads.
C19_OneSplitPerPath ==
    /\ FacesCreated =>
          SplitTopLeftBottomRight(faces, sampled.rows, sampled.cols)
    /\ TerrainCreated =>
          SplitTopRightBottomLeft(TerrainIndexTriangles(terrain),
                                  terrain.rows, terrain.cols)

C19_Witness ==
    /\ AfterMoveTask /\ move.found
    /\ terrain.rows = 3 /\ terrain.cols = 3
    /\ Len(TerrainIndexTriangles(terrain)) = 8
    /\ TerrainIndexTriangles(terrain)[7] = <<4, 5, 7>>
    /\ TerrainIndexTriangles(terrain)[8] = <<5, 8, 7>>

\* C15: in a navigator step whose current and desired positions are both
\* over the terrain, the query for the desired position returns the surface
\* height at the desired position and the query for the current position
\* returns the surface height at the current position; so the two results
\* differ whenever the surface heights at the two positions differ.
C15_QueryAtAskedPosition ==
    LET cur == move.current_pos
        des == move.desired_pos
    IN  (/\ AfterMoveTask /\ move.moved
         /\ OnTerrain(cur[1], cur[2]) /\ OnTerrain(des[1], des[2]))
        => /\ move.new_ground_height = GroundHeight(des[1], des[2])
           /\ move.current_ground_height = GroundHeight(cur[1], cur[2])
           /\ (GroundHeight(des[1], des[2]) # GroundHeight(cur[1], cur[2])
               => move.new_ground_height # move.current_ground_height)

\* C16: in a navigator step with a non-zero displacement, with heightDiff the
\* surface height at the desired position minus the surface height at the
\* current position, the step takes the branch of the climb-rate table for
\* heightDiff and ends at current + f * delta: f = 1 when |heightDiff| <=
\* speed * dt, f = 0.2 when heightDiff > speed * dt, f = 0.5 when
\* heightDiff < -speed * dt.
C16_ClimbRateTable ==
    LET cur == move.current_pos
        des == move.desired_pos
        b == Branch(GroundHeight(des[1], des[2]), GroundHeight(cur[1], cur[2]),
                    move.max_climb2)
        f10 == IF b = "full" THEN 10 ELSE IF b = "uphill" THEN 2 ELSE 5
    IN  (/\ AfterMoveTask /\ move.moved
         /\ OnTerrain(cur[1], cur[2]) /\ OnTerrain(des[1], des[2]))
        => /\ move.branch = b
           /\ camera.x = cur[1] + (f10 * (des[1] - cur[1])) \div 10
           /\ camera.y = cur[2] + (f10 * (des[2] - cur[2])) \div 10

\* C7: in every state of the first-person viewers (SimpleCameraViewer and
\* TerrainViewer), whatever the look inputs were, the heading is in [0, 360)
\* and the pitch is in [-89, 89].
C7_LookBounds ==
    /\ camH >= 0 /\ camH < 360
    /\ camP >= -89 /\ camP <= 89
    /\ tv_camH >= 0 /\ tv_camH < 360
    /\ tv_camP >= -89 /\ tv_camP <= 89

C7_Witness ==
    /\ mouseDown /\ lastMouse.seen
    /\ camP = 89 /\ camH = 25

\* ------------------------------------------------ ground query properties
\* h is the greatest of the heights in E.
Topmost(h, E) == h \in E /\ \A e \in E : RLeq(e, h)

\* The camera as moveTask found it, and as it placed it before the query of
\* lines 384-386.
CameraBeforeStep ==
    [x |-> move.current_pos[1], y |-> move.current_pos[2], z |-> move.prev_z]

CameraPlaced ==
    IF move.moved
    THEN Place(terrain, CameraBeforeStep, camH, camP,
               [x |-> move.desired_pos[1] - move.current_pos[1],
                y |-> move.desired_pos[2] - move.current_pos[2]],
               move.new_ground_height, move.branch)
    ELSE CameraBeforeStep

\* The heights at which the vertical segment through (x, y) meets pv_mesh.
HeightsMet(x, y) ==
    UNION {SegmentTriangle(<<pv_mesh.vertices[pv_mesh.triangles[k][1] + 1],
                             pv_mesh.vertices[pv_mesh.triangles[k][2] + 1],
                             pv_mesh.vertices[pv_mesh.triangles[k][3] + 1]>>, x, y) :
           k \in 1..Len(pv_mesh.triangles)}

TrianglesMet(T, cam, h, p) ==
    {tri \in TerrainTriangles(T) :
        RayTriangle(cam, RaySlope(h, p), RayRise(p), tri) # {}}

OnlyKey(km, key) == km[key] /\ \A k \in Keys \ {key} : ~km[k]

\* The displacement (dx, dy) is a positive multiple of (ux, uy).
Along(dx, dy, ux, uy) ==
    \E L \in 1..(10 * MaxCoord) : dx = L * ux /\ dy = L * uy

\* A step of SimpleCameraViewer.moveTask, and a step of WorldViewer.moveTask
\* that moved the player.
NavStep == frame' = frame + 1

WorldStep == wv_frame' = wv_frame + 1

WorldMoved == WorldStep /\ <<wv_player.x, wv_player.y>>' # <<wv_player.x, wv_player.y>>

\* In a step of SimpleCameraViewer with only `key` held the camera is
\* displaced along (ux, uy).
NavDisplaces(key, ux, uy) ==
    (NavStep /\ OnlyKey(keyMap, key)) =>
        Along(camera'.x - camera.x, camera'.y - camera.y, ux, uy)

\* In a step of WorldViewer with only `key` held that moved the player, the
\* player is displaced along (ux, uy).
WorldDisplaces(key, ux, uy) ==
    (WorldMoved /\ OnlyKey(wv_keyMap, key)) =>
        Along(wv_player'.x - wv_player.x, wv_player'.y - wv_player.y, ux, uy)

\* A step of TerrainViewer.moveTask.
TerrainStep == tv_frame' = tv_frame + 1

\* In a step of TerrainViewer with only `key` held the camera ends the step
\* displaced along (ux, uy).
TerrainDisplaces(key, ux, uy) ==
    (TerrainStep /\ OnlyKey(tv_keyMap, key)) =>
        \E L \in 1..(10 * MaxCoord) :
            /\ tv_camera'.x = RAdd(tv_camera.x, R(L * ux))
            /\ tv_camera'.y = RAdd(tv_camera.y, R(L * uy))

\* C21: with heading h, in SimpleCameraViewer, WorldViewer and
\* TerrainViewer alike, 'forward' alone displaces the observer along
\* (sin h, cos h), 'right' alone along (cos h, -sin h), 'backward' and
\* 'left' along their negatives.
C21_CompassConvention ==
    [][/\ NavDisplaces("forward", Sin(camH), Cos(camH))
       /\ NavDisplaces("right", Cos(camH), -Sin(camH))
       /\ NavDisplaces("backward", -Sin(camH), -Cos(camH))
       /\ NavDisplaces("left", -Cos(camH), Sin(camH))
       /\ WorldDisplaces("forward", Sin(wv_actorH'), Cos(wv_actorH'))
       /\ WorldDisplaces("right", Cos(wv_actorH'), -Sin(wv_actorH'))
       /\ WorldDisplaces("backward", -Sin(wv_actorH'), -Cos(wv_actorH'))
       /\ WorldDisplaces("left", -Cos(wv_actorH'), Sin(wv_actorH'))
       /\ TerrainDisplaces("forward", Sin(tv_camH), Cos(tv_camH))
       /\ TerrainDisplaces("right", Cos(tv_camH), -Sin(tv_camH))
       /\ TerrainDisplaces("backward", -Sin(tv_camH), -Cos(tv_camH))
       /\ TerrainDisplaces("left", -Cos(tv_camH), Sin(tv_camH))]_vars

\* C22: in a step whose summed movement vector is not zero the intended
\* displacement desired_pos - current_pos has length speed * dt, whichever
\* movement keys are held.
C22_StepLength ==
    (AfterMoveTask /\ move.moved) =>
        LET dx == move.desired_pos[1] - move.current_pos[1]
            dy == move.desired_pos[2] - move.current_pos[2]
        IN  dx * dx + dy * dy = move.max_climb2

C22_Witness ==
    /\ AfterMoveTask /\ move.moved
    /\ keyMap["forward"] /\ keyMap["right"]
    /\ ~keyMap["backward"] /\ ~keyMap["left"]
    /\ move.max_climb2 = 200
    /\ Abs(move.desired_pos[1] - move.current_pos[1]) = 10
    /\ Abs(move.desired_pos[2] - move.current_pos[2]) = 10

\* ------------------------------------------------------ look properties
\* A frame of mouseLookTask in which the look variables changed.
LookChanged == <<camH, camP, lastMouse, lastHasMouse>>' # <<camH, camP, lastMouse, lastHasMouse>>

\* The mouse displacement since the previous sample, in tenths.
LookDx == lastMouse'.x - lastMouse.x

LookDy == lastMouse'.y - lastMouse.y

Clamp(v, lo, hi) == IF v < lo THEN lo ELSE IF v > hi THEN hi ELSE v

\* C23: a look input (dx, dy), taken while the button is held and a previous
\* sample exists, sets the heading to (heading - dx * 50) mod 360 and the
\* pitch to clamp(pitch + dy * 50, -89, 89), and leaves the camera's
\* position unchanged.
C23_LookUpdate ==
    [][LookChanged =>
          /\ camera' = camera
          /\ (mouseDown /\ lastMouse.seen) =>
                /\ camH' = (camH - 5 * LookDx) % 360
                /\ camP' = Clamp(camP + 5 * LookDy, -89, 89)]_vars

C23_Witness ==
    /\ mouseDown /\ lastMouse = [seen |-> TRUE, x |-> 7, y |-> -10]
    /\ camH = 95 /\ camP = -89

\* ------------------------------------------------------ frame properties
\* The key or button state changed: an input event was dispatched.
InputRead == <<keyMap, mouseDown>>' # <<keyMap, mouseDown>>

Held(km, key) == IF km[key] THEN 1 ELSE 0

\* C24: a step of moveTask changes neither the heading, the pitch, the key
\* state nor the mouse state, starts from the camera's position before the
\* step and takes its displacement from the heading and keys of before the
\* step; the look update of a frame is applied only after the frame's
\* moveTask has run, and input is read only before it; neither of the two
\* changes the camera's position or the step's record.
C24_MovementBeforeLook ==
    [][/\ NavStep =>
             /\ UNCHANGED <<camH, camP, keyMap, mouseDown, lastMouse, lastHasMouse>>
             /\ next_task = "moveTask" /\ next_task' = "mouseLookTask"
             /\ move'.current_pos = <<camera.x, camera.y>>
             /\ \E scale \in 1..(2 * MaxCoord) :
                   /\ move'.desired_pos[1] - camera.x =
                         scale * (Cos(camH) * (Held(keyMap, "right") - Held(keyMap, "left"))
                                  - Sin(camH) * (Held(keyMap, "forward") - Held(keyMap, "backward")))
                   /\ move'.desired_pos[2] - camera.y =
                         scale * (Sin(camH) * (Held(keyMap, "right") - Held(keyMap, "left"))
                                  + Cos(camH) * (Held(keyMap, "forward") - Held(keyMap, "backward")))
       /\ LookChanged =>
             /\ next_task = "mouseLookTask" /\ frame >= 1
             /\ UNCHANGED <<camera, move, keyMap, mouseDown, frame>>
       /\ InputRead =>
             /\ next_task = "moveTask"
             /\ UNCHANGED <<camera, move, camH, camP, lastMouse, lastHasMouse, frame>>]_vars

\* The look update of frame 2 turned the view from 180 to 90 after the
\* frame's step had been taken along heading 180.
C24_Witness ==
    /\ next_task = "moveTask" /\ frame = 2
    /\ camH = 90 /\ OnlyKey(keyMap, "forward")
    /\ move.moved
    /\ move.desired_pos[1] = move.current_pos[1]
    /\ move.desired_pos[2] = move.current_pos[2] - 10

\* The keys held cancel: 'forward' is held exactly when 'backward' is, and
\* 'left' exactly when 'right' is (none held included).
KeysCancel == keyMap["forward"] = keyMap["backward"] /\ keyMap["left"] = keyMap["right"]

\* C26: a step taken while the held keys cancel leaves the camera's x and y
\* as they were before the step; z is the ground height found by the step's
\* query plus the eye height.
C26_NoMoveKeepsXY ==
    (AfterMoveTask /\ KeysCancel) =>
        /\ ~move.moved
        /\ camera.x = move.current_pos[1]
        /\ camera.y = move.current_pos[2]
        /\ camera.z = RAdd(move.ground_height, R(eye_height))

C26_Witness ==
    /\ AfterMoveTask /\ frame = 3
    /\ keyMap["forward"] /\ keyMap["backward"]
    /\ ~keyMap["left"] /\ ~keyMap["right"]
    /\ ~move.moved
    /\ <<camera.x, camera.y>> = move.current_pos

\* Heading or pitch changed in the step.
ViewTurned == <<camH, camP>>' # <<camH, camP>>

\* The step is a frame of mouseLookTask in which the mouse was outside the
\* window.
MouseOutside == LookChanged /\ ~lastHasMouse'

\* The delta applied to heading and pitch is the displacement from the
\* stored sample to the sample of this frame.
DeltaFromStoredSample ==
    /\ lastHasMouse' /\ lastMouse'.seen
    /\ camH' = (camH - 5 * LookDx) % 360
    /\ camP' = Clamp(camP + 5 * LookDy, -89, 89)

\* C27 as stated: heading and pitch are unchanged in every frame in which
\* the button is not held, the mouse is outside the window, or no previous
\* sample exists; when they change, the delta is the displacement between
\* this frame's sample and the sample of the immediately preceding frame.
C27_PrecedingFrameSample ==
    [][/\ (~mouseDown \/ ~lastHasMouse' \/ ~lastMouse.seen) => ~ViewTurned
       /\ ViewTurned => (DeltaFromStoredSample /\ lastHasMouse)]_vars

\* C27, amended: heading and pitch are unchanged in every frame in which the
\* button is not held, the mouse is outside the window, or no previous
\* sample exists; when they change, the delta is the displacement between
\* this frame's sample and the most recent earlier sample, which a frame
\* with the mouse outside the window leaves as it was.
C27_StoredSample ==
    [][/\ (~mouseDown \/ ~lastHasMouse' \/ ~lastMouse.seen) => ~ViewTurned
       /\ ViewTurned => DeltaFromStoredSample
       /\ MouseOutside => lastMouse' = lastMouse]_vars

\* The view was turned from 180 to 95 by a sample taken after a frame in
\* which the button was held with the mouse inside the window.
C27_Witness ==
    /\ mouseDown /\ lastHasMouse
    /\ lastMouse = [seen |-> TRUE, x |-> 7, y |-> 0]
    /\ camH = 95 /\ camP = 0

\* ------------------------------------------------ WorldViewer properties
\* The planar point (x, y) is on the footprint of the WorldViewer's terrain.
OnWorldTerrain(x, y) ==
    /\ Abs(x) <= wv_terrain.size \div 2
    /\ Abs(y) <= wv_terrain.size \div 2

\* The movement keys held give a step in a direction (they do not cancel).
WorldKeysMove ==
    \/ wv_keyMap["forward"] # wv_keyMap["backward"]
    \/ wv_keyMap["left"] # wv_keyMap["right"]

\* C28: a step of WorldViewer.moveTask whose ground ray meets nothing leaves
\* the player's position (x, y, z) as it was, and a step with movement keys
\* that leaves the position as it was is one whose new position is off the
\* terrain; in every step the heading is turned by the turn keys and kept in
\* [0, 360).
C28_RejectedStep ==
    [][WorldStep =>
          /\ wv_actorH' \in 0..359
          /\ (wv_keyMap["turn_left"] /\ ~wv_keyMap["turn_right"])
                => wv_actorH' = (wv_actorH + 90) % 360
          /\ (wv_keyMap["turn_right"] /\ ~wv_keyMap["turn_left"])
                => wv_actorH' = (wv_actorH + 270) % 360
          /\ (WorldKeysMove /\ wv_entries' = <<>>) => wv_player' = wv_player
          /\ (WorldKeysMove /\ wv_player' = wv_player) =>
                \E dx \in {-45, 0, 45}, dy \in {-45, 0, 45} :
                    /\ <<dx, dy>> # <<0, 0>>
                    /\ ~OnWorldTerrain(wv_player.x + dx, wv_player.y + dy)]_vars

\* After two frames: the turn from 270 to 0 was made and the step from
\* (0, 0) to (0, 4.5 m), off the 8 m terrain, was not.
C28_Witness ==
    /\ wv_frame = 2 /\ wv_terrain.size = 80
    /\ wv_keyMap["forward"] /\ wv_keyMap["turn_left"]
    /\ wv_actorH = 0
    /\ wv_entries = <<>>
    /\ wv_player = [x |-> 0, y |-> 0, z |-> R(0)]

\* A picture was taken in this step: image files were written.
PictureTaken == wv_files' # wv_files

\* The file names of the pictures written so far are pairwise different.
DistinctFiles(files) ==
    \A i, j \in 1..Len(files) : files[i] = files[j] => i = j

\* C29: a picture request, at any point between the navigator's frames,
\* leaves the viewing camera's position and orientation as they were before
\* it, leaves the player's position and heading unchanged, raises
\* screenshot_count by exactly one and writes two files whose names no
\* earlier file of the session has.
C29_PictureRestoresCamera ==
    [][PictureTaken =>
          /\ wv_camera' = wv_camera
          /\ wv_player' = wv_player
          /\ wv_actorH' = wv_actorH
          /\ screenshot_count' = screenshot_count + 1
          /\ Len(wv_files') = Len(wv_files) + 2
          /\ DistinctFiles(wv_files')]_vars

\* Two pictures taken, the second after the mouse has turned the follow
\* camera's heading to 270: the camera is back where the last moveTask put
\* it (for the heading 180 of that frame), not at the player's view.
C29_Witness ==
    /\ screenshot_count = 2
    /\ wv_files = <<<<"screenshot", 0>>, <<"depth", 0>>,
                    <<"screenshot", 1>>, <<"depth", 1>>>>
    /\ wv_frame = 2
    /\ wv_events = 1
    /\ wv_camH = 270
    /\ wv_camera = update_camera_position(wv_player, 180, -30)
    /\ wv_camera # PlayerView(wv_player, wv_actorH)

\* idx is strictly increasing and every index lies in 0 .. size - 1.
IncreasingWithin(idx, size) ==
    /\ \A k \in 1..Len(idx) : 0 <= idx[k] /\ idx[k] <= size - 1
    /\ \A k \in 1..(Len(idx) - 1) : idx[k] < idx[k + 1]

\* C30: when rows >= 2 and floor(rows / factor) >= 2 the selected row
\* indices are strictly increasing, so that no original row is selected
\* twice, and all lie in 0 .. rows - 1; the same holds of the columns.
C30_IndicesIncreasingInRange ==
    pc # "start" =>
        /\ (dem_data.rows >= 2 /\ dem_data.rows \div downsample_factor >= 2) =>
              /\ Len(row_indices) = dem_data.rows \div downsample_factor
              /\ IncreasingWithin(row_indices, dem_data.rows)
        /\ (dem_data.cols >= 2 /\ dem_data.cols \div downsample_factor >= 2) =>
              /\ Len(col_indices) = dem_data.cols \div downsample_factor
              /\ IncreasingWithin(col_indices, dem_data.cols)

\* Three of 7 rows and four of 8 columns selected; the columns are not
\* evenly spaced after truncation.
C30_Witness ==
    /\ pc = "sampled" /\ downsample_factor = 2
    /\ dem_data.rows = 7 /\ dem_data.cols = 8
    /\ row_indices = <<0, 3, 6>>
    /\ col_indices = <<0, 2, 4, 7>>

====
